---------------------------- MODULE Spec2Model ----------------------------
(***************************************************************************)
(* A model of wirecage (euank/wirecage, Go).                               *)
(*                                                                         *)
(* Three specifications share the module's variables:                        *)
(*                                                                         *)
(*   Spec       the three-stage bootstrap of wgcage.go: stage 1 resolves   *)
(*              the target ids and re-executes itself in a user namespace, *)
(*              stage 2 pins its goroutine to an OS thread, creates the    *)
(*              network namespace and launches stage 3, stage 3 switches   *)
(*              ids and runs the target command; exit codes travel back    *)
(*              through main().                                            *)
(*   ForwarderSpec  one flow from its first packet through the forwarder   *)
(*              callbacks of wgcage.go to the dial of                      *)
(*              wireguardProxy.ProxyConn, over all addresses.              *)
(*   CopySpec   one dialed flow through ProxyConn: the outcome of the      *)
(*              dial, the two copy goroutines and their half-closes.       *)
(*                                                                         *)
(* A string of the program is a sequence of lexical symbols, so that       *)
(* formatting and parsing (strconv.Itoa, go-arg, netip.ParseAddrPort) are  *)
(* computed rather than assumed.                                           *)
(***************************************************************************)
EXTENDS Integers, Sequences, FiniteSets, TLC

(***************************************************************************)
(* Bounds of the model.                                                    *)
(***************************************************************************)
\* uids and gids range over 0..MaxId
MaxId == 2
\* OS threads of the stage-2 Go runtime are 1..NumThreads
NumThreads == 2
\* hosts are numbered 1..MaxIp within the IPv4 and the IPv6 network
MaxIp == 2
\* ports range over 1..MaxPort
MaxPort == 2
\* each peer of a flow writes at most MaxBytes bytes (UDP: datagrams)
MaxBytes == 3
\* the child sends at most MaxPings echo requests (ping -c 3)
MaxPings == 3

Ids == 0..MaxId
Threads == 1..NumThreads
Procs == {"p1", "p2", "p3", "child"}
Stages == {"p1", "p2", "p3"}

\* exit codes the target command is given to exit with (0..255 sampled)
ExitCodes == {0, 1, 42, 255}

VARIABLES
    \* ---- environment of a run
    hostUid,        \* uid of the invoking user (real = effective)
    hostGid,        \* gid of the invoking user
    lookup,         \* what user.Lookup answers for --user
    target,         \* how the target command will end
    \* ---- the processes p1 (stage 1), p2 (stage 2), p3 (stage 3), child
    pc,             \* position of each process in run()/main()
    err,            \* the error run() returns in each stage
    argv,           \* os.Args of each process
    ws,             \* wait status of each process
    diag,           \* where main() printed a fatal diagnostic, per stage
    resolved,       \* uid/gid decided by stage 1
    uidMap,         \* uid_map written for the namespaces ns2, ns3
    gidMap,         \* gid_map written for the namespaces ns2, ns3
    cred,           \* kernel (host-level) uid/gid of each process
    \* ---- threads and network namespaces of stage 2
    curThread,      \* OS thread the stage-2 main goroutine runs on
    locked,         \* runtime.LockOSThread is in effect
    threadNs,       \* network namespace of each stage-2 thread
    procNs,         \* network namespace of each process
    unshareThread,  \* thread that called unshare(CLONE_NEWNET), 0 if none
    forkThread,     \* thread that created stage 3, 0 if none
    mounted,        \* the /etc overlay is mounted
    setup,          \* the set-up steps stage 2 has completed, in order
    wgConf,         \* the key texts of the invocation and the keys the
                    \* WireGuard device was configured with
    held,           \* what stage 2 holds open: TUN descriptor, WireGuard device
    etc,            \* what os.Lstat("/etc") showed stage 2: "dir", "other"
                    \* (no directory, or none at all), "unseen" before
    sys3,           \* the calls stage 3 has made, in order
    \* ---- the server program, cmd/wirecagesrv
    srv             \* its configuration, position, and the UDP listen port

VARIABLES
    \* ---- one flow through the forwarders and ProxyConn (stage 2)
    wgAddress,      \* --wg-address, the address of the WG-side stack's NIC
    req,            \* the forwarder request: protocol, source, destination
    fpc,            \* position of the forwarder callback and ProxyConn
    inner,          \* the TUN-side connection as the child observes it
    iconn,          \* the TUN-side connection the forwarder hands to ProxyConn
    dialed,         \* the dial ProxyConn made on the WG-side stack
    outer,          \* the WG-side connection
    sent,           \* per direction: bytes the source peer has written
    fin,            \* per direction: the source peer closed its write side
    rcvq,           \* per direction: bytes received, not yet read by the copy
    buf,            \* per direction: bytes io.Copy has read and not written
    dlv,            \* per direction: bytes written to the destination
    cpc,            \* per direction: position of the copy goroutine
    cerr,           \* per direction: how proxyBytes ended
    closeWrites,    \* per direction: CloseWrite calls on the destination
    shut,           \* per connection: read / write side closed by stage 2
    reset,          \* per connection: the peer aborted it
    crashed,        \* stage 2 died of a panic
    logged,         \* the highest slog level stage 2 used for the flow
    tunq,           \* packets of the flow the child sent, still in the TUN
    dispatcher,     \* the goroutine that reads the TUN: free, or in a handler
    cancelled,      \* the context handed to ProxyConn is done
    echo,           \* ICMP echo: requests of the child, requests put into the
                    \* tunnel, replies the child received
    others          \* protocols of the other flows whose first packet reached
                    \* a forwarder callback

flowVars == <<req, fpc, inner, iconn, dialed, outer, sent, fin, rcvq, buf,
              dlv, cpc, cerr, closeWrites, shut, reset, crashed, logged,
              tunq, dispatcher, cancelled, echo, others>>

proxyVars == <<wgAddress, flowVars>>

supVars == <<hostUid, hostGid, lookup, target, pc, err, argv, ws, diag,
             resolved, uidMap, gidMap, cred, curThread, locked, threadNs,
             procNs, unshareThread, forkThread, mounted, setup, wgConf, held, etc, sys3, srv>>

vars == <<supVars, proxyVars>>

(***************************************************************************)
(* Strings.                                                                *)
(***************************************************************************)
DigitChar == <<"0", "1", "2", "3", "4", "5", "6", "7", "8", "9">>

\* strconv.Itoa for n >= 0
RECURSIVE Itoa(_)
Itoa(n) ==
    IF n < 10 THEN <<DigitChar[n + 1]>>
    ELSE Itoa(n \div 10) \o <<DigitChar[(n % 10) + 1]>>

DigitVal(c) == CHOOSE d \in 0..9 : DigitChar[d + 1] = c

IsNumber(s) ==
    /\ Len(s) > 0
    /\ \A i \in 1..Len(s) : \E d \in 0..9 : DigitChar[d + 1] = s[i]

\* the integer a decimal string denotes (the option parser's int conversion)
RECURSIVE Atoi(_)
Atoi(s) ==
    IF Len(s) = 1 THEN DigitVal(s[1])
    ELSE 10 * Atoi(SubSeq(s, 1, Len(s) - 1)) + DigitVal(s[Len(s)])

HasPrefix(s, p) == Len(s) >= 1 /\ s[1] = p

Opt(name) == <<"--", name>>
DashDash == <<"--">>
EmptyStr == <<>>

Stage2Sentinel == <<"httptap.stage.", "2">>
Stage3Sentinel == <<"httptap.stage.", "3">>
ProgName == <<"wirecage">>

(***************************************************************************)
(* Addresses.  An address is [v6, ip], an address with a port is           *)
(* [v6, ip, port]; their text forms are what net.TCPAddr.String,           *)
(* net.UDPAddr.String and netip.ParseAddrPort write and read.              *)
(***************************************************************************)
Addrs == [v6 : BOOLEAN, ip : 1..MaxIp]
AddrPorts == [v6 : BOOLEAN, ip : 1..MaxIp, port : 1..MaxPort]
NoAddr == [v6 |-> FALSE, ip |-> 0]
NoAddrPort == [v6 |-> FALSE, ip |-> 0, port |-> 0]

AddrOf(ap) == [v6 |-> ap.v6, ip |-> ap.ip]
WithPort(a, port) == [v6 |-> a.v6, ip |-> a.ip, port |-> port]

V4Prefix == <<"10", ".", "0", ".", "0", ".">>
V6Prefix == <<"fd00", ":", ":">>

Contains(s, c) == \E i \in DOMAIN s : s[i] = c
StartsWith(s, p) == Len(s) >= Len(p) /\ SubSeq(s, 1, Len(p)) = p
LastIndex(s, c) ==
    IF Contains(s, c) THEN CHOOSE i \in DOMAIN s :
                               s[i] = c /\ \A j \in DOMAIN s : s[j] = c => j <= i
    ELSE 0

\* net.IP.String, netip.Addr.String
AddrString(a) == (IF a.v6 THEN V6Prefix ELSE V4Prefix) \o Itoa(a.ip)

\* net.JoinHostPort: a host that holds a colon is put in brackets
JoinHostPort(host, port) ==
    IF Contains(host, ":") THEN <<"[">> \o host \o <<"]", ":">> \o port
    ELSE host \o <<":">> \o port

\* net.TCPAddr.String, net.UDPAddr.String
AddrPortString(ap) == JoinHostPort(AddrString(AddrOf(ap)), Itoa(ap.port))

\* netip.ParseAddr
ParseAddr(s) ==
    IF StartsWith(s, V4Prefix) /\ IsNumber(SubSeq(s, Len(V4Prefix) + 1, Len(s)))
    THEN [ok |-> TRUE,
          addr |-> [v6 |-> FALSE, ip |-> Atoi(SubSeq(s, Len(V4Prefix) + 1, Len(s)))]]
    ELSE IF StartsWith(s, V6Prefix) /\ IsNumber(SubSeq(s, Len(V6Prefix) + 1, Len(s)))
    THEN [ok |-> TRUE,
          addr |-> [v6 |-> TRUE, ip |-> Atoi(SubSeq(s, Len(V6Prefix) + 1, Len(s)))]]
    ELSE [ok |-> FALSE, addr |-> NoAddr]

\* netip.ParseAddrPort: split at the last colon; brackets are stripped and
\* go with IPv6 addresses only, which in turn need them
ParseAddrPort(s) ==
    LET i == LastIndex(s, ":")
        host == SubSeq(s, 1, i - 1)
        port == SubSeq(s, i + 1, Len(s))
        bracketed == Len(host) >= 1 /\ host[1] = "["
        closedBr == Len(host) >= 2 /\ host[Len(host)] = "]"
        a == ParseAddr(IF bracketed /\ closedBr THEN SubSeq(host, 2, Len(host) - 1)
                       ELSE host)
    IN IF /\ i > 0
          /\ Len(host) > 0
          /\ bracketed => closedBr
          /\ a.ok
          /\ a.addr.v6 = bracketed
          /\ IsNumber(port)
       THEN [ok |-> TRUE, addrPort |-> WithPort(a.addr, Atoi(port))]
       ELSE [ok |-> FALSE, addrPort |-> NoAddrPort]


(***************************************************************************)
(* The argument struct of run() and its parser.                            *)
(***************************************************************************)
ValueOpts == {"uid", "gid", "user", "tun", "subnet", "gateway", "stack",
              "log-level", "wg-public-key", "wg-private-key-file",
              "wg-endpoint", "wg-address"}
BoolOpts == {"no-overlay"}

\* the struct before parsing: Go zero values (defaults that no modelled step
\* reads are left out)
ZeroArgs ==
    [ok |-> TRUE, UID |-> 0, GID |-> 0, User |-> EmptyStr, NoOverlay |-> FALSE,
     WgPubKey |-> EmptyStr, WgPrivKeyFile |-> EmptyStr,
     WgEndpoint |-> EmptyStr, WgIP |-> EmptyStr, Command |-> <<>>]

SetOpt(a, name, v) ==
    CASE name = "uid" ->
           IF IsNumber(v) THEN [a EXCEPT !.UID = Atoi(v)] ELSE [a EXCEPT !.ok = FALSE]
      [] name = "gid" ->
           IF IsNumber(v) THEN [a EXCEPT !.GID = Atoi(v)] ELSE [a EXCEPT !.ok = FALSE]
      [] name = "user" -> [a EXCEPT !.User = v]
      [] name = "wg-public-key" -> [a EXCEPT !.WgPubKey = v]
      [] name = "wg-private-key-file" -> [a EXCEPT !.WgPrivKeyFile = v]
      [] name = "wg-endpoint" -> [a EXCEPT !.WgEndpoint = v]
      [] name = "wg-address" -> [a EXCEPT !.WgIP = v]
      [] OTHER -> a

\* arg.MustParse: options may appear anywhere before "--"; a repeated option
\* keeps its last value; everything after "--" is positional
RECURSIVE ParseFrom(_, _, _, _)
ParseFrom(toks, i, a, positionalOnly) ==
    IF i > Len(toks) THEN a
    ELSE LET t == toks[i] IN
         IF positionalOnly
         THEN ParseFrom(toks, i + 1, [a EXCEPT !.Command = Append(@, t)], TRUE)
         ELSE IF t = DashDash THEN ParseFrom(toks, i + 1, a, TRUE)
         ELSE IF HasPrefix(t, "--")
         THEN IF Len(t) = 2 /\ t[2] \in BoolOpts
              THEN ParseFrom(toks, i + 1, [a EXCEPT !.NoOverlay = TRUE], FALSE)
              ELSE IF Len(t) = 2 /\ t[2] \in ValueOpts /\ i < Len(toks)
              THEN ParseFrom(toks, i + 2, SetOpt(a, t[2], toks[i + 1]), FALSE)
              ELSE [a EXCEPT !.ok = FALSE]
         ELSE IF HasPrefix(t, "-") THEN [a EXCEPT !.ok = FALSE]
         ELSE ParseFrom(toks, i + 1, [a EXCEPT !.Command = Append(@, t)], FALSE)

DefaultCommand == << <<"/bin/sh">> >>

\* run() lines 62-84: parse os.Args[1:], default the command
ParseArgs(args) ==
    LET a == ParseFrom(args, 2, ZeroArgs, FALSE) IN
    IF a.ok /\ Len(a.Command) = 0 THEN [a EXCEPT !.Command = DefaultCommand] ELSE a

\* run() lines 87 and 156: which stage a process runs
StageOf(args) ==
    IF ~HasPrefix(args[1], "httptap.stage.") THEN 1
    ELSE IF args[1] = Stage3Sentinel THEN 3
    ELSE 2

(***************************************************************************)
(* User-namespace id maps (syscall.SysProcIDMap) and the kernel's view.    *)
(***************************************************************************)
NoId == 0 - 1

IdMapEntry(containerId, hostId, size) ==
    [ContainerID |-> containerId, HostID |-> hostId, Size |-> size]

\* an id of the namespace, as an id of the parent namespace
MapToParent(m, id) ==
    IF \E i \in DOMAIN m : m[i].ContainerID <= id /\ id < m[i].ContainerID + m[i].Size
    THEN LET i == CHOOSE j \in DOMAIN m :
                      m[j].ContainerID <= id /\ id < m[j].ContainerID + m[j].Size
         IN m[i].HostID + (id - m[i].ContainerID)
    ELSE NoId

\* an id of the parent namespace, as seen inside the namespace
MapFromParent(m, id) ==
    IF \E i \in DOMAIN m : m[i].HostID <= id /\ id < m[i].HostID + m[i].Size
    THEN LET i == CHOOSE j \in DOMAIN m :
                      m[j].HostID <= id /\ id < m[j].HostID + m[j].Size
         IN m[i].ContainerID + (id - m[i].HostID)
    ELSE NoId

\* the kernel lets a process without privilege in the parent namespace write
\* only a one-line map of its own id; a privileged one may map any id that
\* is valid in the parent namespace, that is, mapped by the parent's own map
MapWritePermitted(m, writerId, writerPrivileged, parentMap) ==
    /\ Len(m) >= 1
    /\ \A i \in DOMAIN m : m[i].Size >= 1 /\ m[i].ContainerID >= 0
    /\ IF writerPrivileged
       THEN \A i \in DOMAIN m :
                \A h \in m[i].HostID..(m[i].HostID + m[i].Size - 1) :
                    MapToParent(parentMap, h) # NoId
       ELSE Len(m) = 1 /\ m[1].Size = 1 /\ m[1].HostID = writerId

(***************************************************************************)
(* Errors, wait statuses and main().                                       *)
(***************************************************************************)
\* An error is its chain of wrapped errors, outermost first; nil is empty.
NilErr == <<>>
NewErr == << [kind |-> "error", code |-> 0, msg |-> <<"error">>] >>
\* fmt.Errorf(msg) without an operand
Errorf(msg) == << [kind |-> "error", code |-> 0, msg |-> msg] >>

NotStarted == [st |-> "none", code |-> 0]
Running == [st |-> "running", code |-> 0]
Exited(c) == [st |-> "exited", code |-> c]
Signaled == [st |-> "signaled", code |-> 0]
NotFound == [st |-> "notfound", code |-> 0]

\* (*exec.ExitError).ExitCode: the exit code, or -1 if the process was
\* killed by a signal
ExitCode(w) == IF w.st = "exited" THEN w.code ELSE 0 - 1

\* what cmd.Wait returns for a started child
WaitErr(w) ==
    IF w.st = "exited" /\ w.code = 0 THEN NilErr
    ELSE << [kind |-> "ExitError", code |-> ExitCode(w), msg |-> <<"exit status">>] >>

\* variant of Wrap: formatting with %v instead of %w drops the chain
WrapFlat(e) == NewErr

\* fmt.Errorf("...: %w", err): the new error wraps err
Wrap(e) == << [kind |-> "wrapError", code |-> 0, msg |-> <<"error: ">>] >> \o e

\* errors.As(err, &exitError): the first *exec.ExitError of the chain
IsExitError(e) == \E i \in DOMAIN e : e[i].kind = "ExitError"
AsExitError(e) == e[CHOOSE i \in DOMAIN e :
                        /\ e[i].kind = "ExitError"
                        /\ \A j \in 1..(i - 1) : e[j].kind # "ExitError"]

\* err.Error(): the text of an error and of what it wraps
RECURSIVE ErrorText(_)
ErrorText(e) == IF e = <<>> THEN <<>> ELSE Head(e).msg \o ErrorText(Tail(e))

\* os.Exit(n): the status the parent's wait sees
OsExit(n) == Exited(n % 256)

\* main() line 480: log.SetOutput
LogOutput == "stdout"

\* variant of MainExit: the child's code is replaced by a plain failure
MainExitOne(e) ==
    IF e = NilErr THEN [status |-> Exited(0), diag |-> "none"]
    ELSE [status |-> Exited(1), diag |-> "none"]

\* main() lines 482-493: [status, diag] for the error run() returned
MainExit(e) ==
    IF e = NilErr THEN [status |-> Exited(0), diag |-> "none"]
    ELSE IF IsExitError(e)
    THEN [status |-> OsExit(AsExitError(e).code), diag |-> "none"]
    ELSE [status |-> Exited(1), diag |-> LogOutput]

(***************************************************************************)
(* The invocation.                                                         *)
(***************************************************************************)
UserName == <<"alice">>
DefaultWgAddress == [v6 |-> FALSE, ip |-> 1]
RequiredFlags == <<"wg-endpoint", "wg-public-key", "wg-private-key-file">>
FlagValue(name) == <<"value of ", name>>
\* the WireGuard options of an invocation that gives the text wg as its
\* --wg-address and leaves out the flag `missing`
WgArgs(wg, missing) ==
    (IF missing = "wg-endpoint" THEN <<>>
     ELSE <<Opt("wg-endpoint"), FlagValue("wg-endpoint")>>)
    \o (IF missing = "wg-public-key" THEN <<>>
        ELSE <<Opt("wg-public-key"), FlagValue("wg-public-key")>>)
    \o (IF missing = "wg-private-key-file" THEN <<>>
        ELSE <<Opt("wg-private-key-file"), FlagValue("wg-private-key-file")>>)
    \o (IF missing = "wg-address" THEN <<>>
        ELSE <<Opt("wg-address"), wg>>)
Command == << <<"cmd">>, <<"-", "x">> >>

\* os.Args of the invocation, with or without --user
Invocation(withUser, wg, missing) ==
    <<ProgName>> \o (IF withUser THEN <<Opt("user"), UserName>> ELSE <<>>)
                 \o WgArgs(wg, missing) \o <<DashDash>> \o Command

NoUser == [ok |-> FALSE, Uid |-> EmptyStr, Gid |-> EmptyStr]
Lookups == {NoUser} \cup {[ok |-> TRUE, Uid |-> Itoa(u), Gid |-> Itoa(g)] : u \in Ids, g \in Ids}
Targets == {Exited(c) : c \in ExitCodes} \cup {Signaled, NotFound}

\* device.NoisePrivateKey, device.NoisePublicKey: arrays of 32 bytes
NoiseKeyLen == 32

\* a key text: whether it is base64 at all, and the bytes it decodes to
KeyText(b64, n) == [b64 |-> b64, bytes |-> [i \in 1..n |-> 1]]
GoodKey == KeyText(TRUE, NoiseKeyLen)
KeyTexts == {KeyText(FALSE, 0)} \cup {KeyText(TRUE, n) : n \in {0, 16, 31, 32, 33}}
NoDevice == [private_key |-> <<>>, public_key |-> <<>>]

\* copy(privKey[:], privKeyBytes), part_003 lines 39 and 46: the built-in
\* copies min(len(dst), len(src)) bytes into the zeroed array
CopyKey(src) == [i \in 1..NoiseKeyLen |-> IF i <= Len(src) THEN src[i] ELSE 0]

\* base64.StdEncoding.DecodeString of both keys, lines 35-37 and 42-44: the
\* only test newWgProxy makes of a key
KeysDecode(priv, pub) == priv.b64 /\ pub.b64

\* dev.IpcSet, lines 50-53: the device takes the hex text of the two arrays
IpcSet(priv, pub) ==
    [private_key |-> CopyKey(priv.bytes), public_key |-> CopyKey(pub.bytes)]

\* cmd/wirecagesrv, Config lines 27-36: the default of --server-ip
DefaultServerIP == [v6 |-> FALSE, ip |-> 1]

\* the UDP ports of the server's host that a socket can be bound to
Ports == 1..MaxPort

\* the server program as it is invoked: --port, where the private key comes
\* from ("none", "file", "flag") and its text, whether --public-key is given,
\* the text of --server-ip, and the ports other processes of the host own
SrvConfig(port, keyFrom, key, pub, ip, taken) ==
    [pc |-> "main", ListenPort |-> port, keyFrom |-> keyFrom, PrivateKey |-> key,
     PublicKey |-> pub, ServerIP |-> ip,
     device |-> [private_key |-> <<>>, listen_port |-> 0, up |-> FALSE],
     bound |-> {[who |-> "other", port |-> p] : p \in taken},
     tries |-> <<>>, err |-> "none", code |-> 0]

\* no server program runs
NoServer ==
    [SrvConfig(0, "none", GoodKey, FALSE, AddrString(DefaultServerIP), {})
        EXCEPT !.pc = "none"]

\* the state of a run at its start, but for the command line and the user
\* database: one process, no namespace, nothing set up
Started(keyTexts) ==
    /\ hostUid \in Ids
    /\ hostGid \in Ids
    /\ target \in Targets
    /\ pc = [p \in Procs |-> IF p = "p1" THEN "start" ELSE "none"]
    /\ err = [p \in Stages |-> NilErr]
    /\ ws = [p \in Procs |-> IF p = "p1" THEN Running ELSE NotStarted]
    /\ diag = [p \in Stages |-> "none"]
    /\ resolved = [uid |-> NoId, gid |-> NoId]
    /\ uidMap = [n \in {"ns2", "ns3"} |-> <<>>]
    /\ gidMap = [n \in {"ns2", "ns3"} |-> <<>>]
    /\ cred = [p \in Procs |-> IF p = "p1" THEN [uid |-> hostUid, gid |-> hostGid]
                                            ELSE [uid |-> NoId, gid |-> NoId]]
    /\ curThread = 1
    /\ locked = FALSE
    /\ threadNs = [t \in Threads |-> "host"]
    /\ procNs = [p \in Procs |-> IF p = "p1" THEN "host" ELSE "none"]
    /\ unshareThread = 0
    /\ forkThread = 0
    /\ mounted = FALSE
    /\ setup = <<>>
    /\ \E priv \in keyTexts, pub \in keyTexts :
          wgConf = [priv |-> priv, pub |-> pub, dev |-> NoDevice]
    /\ held = {}
    /\ etc = "unseen"
    /\ sys3 = <<>>

\* the state in which the program is started under the name argv0, with a
\* --wg-address text of wgTexts, without one flag of missings, and with key
\* texts of keyTexts in the key file and in --wg-public-key; extras are the
\* further options it may give first
InvokedWith(argv0, wgTexts, missings, keyTexts, extras) ==
    /\ \E withUser \in BOOLEAN, missing \in missings, wgText \in wgTexts,
          extra \in extras :
          /\ argv = [p \in Procs |-> IF p = "p1"
                                     THEN <<argv0>> \o extra
                                          \o Tail(Invocation(withUser, wgText, missing))
                                     ELSE <<>>]
          /\ lookup \in (IF withUser THEN Lookups ELSE {NoUser})
    /\ Started(keyTexts)
    /\ srv = NoServer

\* the invocations of the bootstrap: well-formed address and keys
InvokedAs(argv0) ==
    InvokedWith(argv0, {AddrString(DefaultWgAddress)},
                {"none"} \cup {RequiredFlags[i] : i \in 1..3}, {GoodKey}, {<<>>})

SupInit == InvokedAs(ProgName)

(***************************************************************************)
(* Stage 1: run() lines 86-154.                                            *)
(***************************************************************************)
Getuid == cred["p1"].uid
Getgid == cred["p1"].gid
Geteuid == cred["p1"].uid
Getegid == cred["p1"].gid

\* variant of ResolveIds: a failed --user lookup falls back to the caller
ResolveIdsLenient(a, lk) ==
    IF a.User = EmptyStr \/ ~lk.ok \/ ~IsNumber(lk.Uid) \/ ~IsNumber(lk.Gid)
    THEN [ok |-> TRUE, uid |-> Geteuid, gid |-> Getegid]
    ELSE [ok |-> TRUE, uid |-> Atoi(lk.Uid), gid |-> Atoi(lk.Gid)]

\* variant of ResolveIds: the --user lookup is not consulted
ResolveIdsNoLookup(a, lk) == [ok |-> TRUE, uid |-> Geteuid, gid |-> Getegid]

\* lines 92-109: the ids to switch to later
ResolveIds(a, lk) ==
    IF a.User = EmptyStr THEN [ok |-> TRUE, uid |-> Geteuid, gid |-> Getegid]
    ELSE IF ~lk.ok \/ ~IsNumber(lk.Uid) \/ ~IsNumber(lk.Gid)
    THEN [ok |-> FALSE, uid |-> NoId, gid |-> NoId]
    ELSE [ok |-> TRUE, uid |-> Atoi(lk.Uid), gid |-> Atoi(lk.Gid)]

\* lines 124-129: cmd.Args of stage 2
Stage2Argv(ids, args) ==
    <<Stage2Sentinel, Opt("uid"), Itoa(ids.uid), Opt("gid"), Itoa(ids.gid)>>
        \o Tail(args)

\* variant of Stage2UidMap: a range of ids instead of one
Stage2UidMapWide == << IdMapEntry(0, Getuid, 2) >>

\* lines 136-145: the id maps of the first user namespace
Stage2UidMap == << IdMapEntry(0, Getuid, 1) >>
Stage2GidMap == << IdMapEntry(0, Getgid, 1) >>

\* the id map of the initial user namespace is the identity ("0 0 4294967295");
\* its size is cut to the largest integer TLC has
HostIdMap == << IdMapEntry(0, 0, 2147483647) >>

S1Resolve ==
    /\ pc["p1"] = "start"
    /\ StageOf(argv["p1"]) = 1
    /\ LET a == ParseArgs(argv["p1"])
           r == ResolveIds(a, lookup)
       IN /\ a.ok
          /\ IF r.ok
             THEN /\ resolved' = [uid |-> r.uid, gid |-> r.gid]
                  /\ pc' = [pc EXCEPT !["p1"] = "spawn"]
                  /\ err' = err
             ELSE /\ resolved' = resolved
                  /\ pc' = [pc EXCEPT !["p1"] = "ret"]
                  /\ err' = [err EXCEPT !["p1"] = Wrap(NewErr)]
    /\ UNCHANGED <<hostUid, hostGid, lookup, target, argv, ws, diag, uidMap, gidMap,
                   cred, curThread, locked, threadNs, procNs, unshareThread,
                   forkThread, mounted, setup, wgConf, held, etc, sys3, srv>>
    /\ UNCHANGED proxyVars

\* lines 123-147: cmd.Run starts stage 2 in a new user namespace
S1Spawn ==
    /\ pc["p1"] = "spawn"
    /\ LET um == Stage2UidMap
           gm == Stage2GidMap
       IN IF /\ MapWritePermitted(um, cred["p1"].uid, cred["p1"].uid = 0, HostIdMap)
             /\ MapWritePermitted(gm, cred["p1"].gid, cred["p1"].uid = 0, HostIdMap)
          THEN /\ uidMap' = [uidMap EXCEPT !["ns2"] = um]
               /\ gidMap' = [gidMap EXCEPT !["ns2"] = gm]
               /\ argv' = [argv EXCEPT !["p2"] = Stage2Argv(resolved, argv["p1"])]
               /\ ws' = [ws EXCEPT !["p2"] = Running]
               /\ cred' = [cred EXCEPT !["p2"] = cred["p1"]]
               /\ procNs' = [procNs EXCEPT !["p2"] = procNs["p1"]]
               /\ pc' = [pc EXCEPT !["p1"] = "wait", !["p2"] = "start"]
               /\ err' = err
          ELSE /\ pc' = [pc EXCEPT !["p1"] = "ret"]
               /\ err' = [err EXCEPT !["p1"] = Wrap(NewErr)]
               /\ UNCHANGED <<uidMap, gidMap, argv, ws, cred, procNs>>
    /\ UNCHANGED <<hostUid, hostGid, lookup, target, diag, resolved, curThread,
                   locked, threadNs, unshareThread, forkThread, mounted, setup, wgConf, held, etc, sys3, srv>>
    /\ UNCHANGED proxyVars

\* lines 147-153: cmd.Run returns when stage 2 has ended
S1Wait ==
    /\ pc["p1"] = "wait"
    /\ ws["p2"].st \in {"exited", "signaled"}
    /\ pc' = [pc EXCEPT !["p1"] = "ret"]
    /\ err' = [err EXCEPT !["p1"] =
                  IF WaitErr(ws["p2"]) = NilErr THEN NilErr ELSE Wrap(WaitErr(ws["p2"]))]
    /\ UNCHANGED <<hostUid, hostGid, lookup, target, argv, ws, diag, resolved, uidMap,
                   gidMap, cred, curThread, locked, threadNs, procNs, unshareThread,
                   forkThread, mounted, setup, wgConf, held, etc, sys3, srv>>
    /\ UNCHANGED proxyVars

(***************************************************************************)
(* Stage 2: run() lines 194-476.                                           *)
(***************************************************************************)
\* the ids of a process as its own user namespace shows them
SeenIn2(c) == [uid |-> MapFromParent(uidMap["ns2"], c.uid),
               gid |-> MapFromParent(gidMap["ns2"], c.gid)]
SeenIn3(c) == [uid |-> MapFromParent(uidMap["ns3"], SeenIn2(c).uid),
               gid |-> MapFromParent(gidMap["ns3"], SeenIn2(c).gid)]

\* an id of the second namespace, as the host kernel holds it
HostUidOf3(id) == MapToParent(uidMap["ns2"], MapToParent(uidMap["ns3"], id))
HostGidOf3(id) == MapToParent(gidMap["ns2"], MapToParent(gidMap["ns3"], id))

\* lines 196-207
\* variant of RequiredFlagsPresent: the checks are missing
RequiredFlagsUnchecked(a) == TRUE

RequiredFlagsPresent(a) ==
    /\ a.WgEndpoint # EmptyStr
    /\ a.WgPubKey # EmptyStr
    /\ a.WgPrivKeyFile # EmptyStr

\* lines 196-207: the error of the first check that fails
RequiredFlagError(a) ==
    IF a.WgEndpoint = EmptyStr THEN Errorf(Opt("wg-endpoint") \o <<" is required">>)
    ELSE IF a.WgPubKey = EmptyStr THEN Errorf(Opt("wg-public-key") \o <<" is required">>)
    ELSE Errorf(Opt("wg-private-key-file") \o <<" is required">>)

\* variant of LockOSThread: the call is missing
NoLockOSThread == FALSE

\* line 220: runtime.LockOSThread wires the goroutine to its thread
LockOSThread == TRUE

\* variant of Stage3Argv: the command follows without the separator
Stage3ArgvNoSeparator(a) ==
    <<Stage3Sentinel, Opt("uid"), Itoa(a.UID), Opt("gid"), Itoa(a.GID)>>
        \o a.Command

\* lines 441-446: cmd.Args of stage 3
Stage3Argv(a) ==
    <<Stage3Sentinel, Opt("uid"), Itoa(a.UID), Opt("gid"), Itoa(a.GID), DashDash>>
        \o a.Command

\* lines 454-463: the id maps of the second user namespace
Stage3UidMap(a) == << IdMapEntry(a.UID, 0, 1) >>
Stage3GidMap(a) == << IdMapEntry(a.GID, 0, 1) >>

\* lines 228-307: the steps in the new network namespace, in the order of
\* the code: water.New, LinkByName, LinkSetUp, ParseIPNet and AddrAdd, the
\* IPv4 default route, the IPv6 default route, LinkByName("lo"), LinkSetUp
NetSteps == <<"tun", "link", "linkup", "addr", "route4", "route6", "lo", "loup">>

\* lines 330-435: stack.New, fdbased.New, the two forwarders, the protocol
\* handlers, CreateNIC, SetPromiscuousMode, SetSpoofing, SetRouteTable
StackSteps == <<"stack", "linkEndpoint", "tcpForwarder", "udpForwarder", "handlers",
                "nic", "promiscuous", "spoofing", "routes">>

\* the steps of StackSteps whose error run() returns
StackFailable == {"linkEndpoint", "nic", "promiscuous", "spoofing"}

\* the first k steps, run in order; an error of the IPv6 default route is
\* logged at debug level and ignored (lines 291-293)
StepsDone(steps, k, route6) ==
    [i \in 1..k |-> IF steps[i] = "route6" /\ ~route6 THEN "route6 ignored"
                                                      ELSE steps[i]]

\* variant of NetFailable: the error of every step is returned
NetFailableAll(step) == TRUE

\* the steps of NetSteps whose error run() returns: all but the IPv6 route
NetFailable(step) == step # "route6"

\* variant of S2Step: the step's error is dropped and stage 2 goes on
S2StepGoOn(next, ok) ==
    /\ pc' = [pc EXCEPT !["p2"] = next]
    /\ err' = IF ok THEN err ELSE [err EXCEPT !["p2"] = Wrap(NewErr)]

S2StepIgnoreError(next, ok) ==
    /\ pc' = [pc EXCEPT !["p2"] = next]
    /\ err' = err

\* stage 2 moves on to position next, or returns an error
S2Step(next, ok) ==
    IF ok THEN /\ pc' = [pc EXCEPT !["p2"] = next]
               /\ err' = err
          ELSE /\ pc' = [pc EXCEPT !["p2"] = "ret"]
               /\ err' = [err EXCEPT !["p2"] = Wrap(NewErr)]

\* the Go scheduler moves a goroutine that is not wired to another thread
Migrate ==
    /\ pc["p2"] \notin {"none", "ret", "exited"}
    /\ ~locked
    /\ \E t \in Threads \ {curThread} : curThread' = t
    /\ UNCHANGED <<hostUid, hostGid, lookup, target, pc, err, argv, ws, diag, resolved,
                   uidMap, gidMap, cred, locked, threadNs, procNs, unshareThread,
                   forkThread, mounted, setup, wgConf, held, etc, sys3, srv>>
    /\ UNCHANGED proxyVars

\* variant of AfterCheckArgs: the thread is pinned next, no peer is started
AfterCheckArgsLock == "lock"

\* lines 209-217 follow the checks of the flags: the key file is read and
\* the WireGuard device is created and brought up, on the thread and in the
\* network namespace stage 2 was started in
AfterCheckArgs == "readkey"

\* lines 194-207
S2CheckArgs ==
    /\ pc["p2"] = "start"
    /\ StageOf(argv["p2"]) = 2
    /\ ParseArgs(argv["p2"]).ok
    /\ IF RequiredFlagsPresent(ParseArgs(argv["p2"]))
       THEN S2Step(AfterCheckArgs, TRUE)
       ELSE /\ pc' = [pc EXCEPT !["p2"] = "ret"]
            /\ err' = [err EXCEPT !["p2"] = RequiredFlagError(ParseArgs(argv["p2"]))]
    /\ UNCHANGED <<hostUid, hostGid, lookup, target, argv, ws, diag, resolved, uidMap,
                   gidMap, cred, curThread, locked, threadNs, procNs, unshareThread,
                   forkThread, mounted, setup, wgConf, held, etc, sys3, srv>>
    /\ UNCHANGED proxyVars

\* netip.MustParseAddr, part_003 line 27: panics on a text that is no address
MustParseAddrPanics(ourIP) == ~ParseAddr(ourIP).ok

\* lines 209-217 and newWgProxy, part_003 lines 24-67: read the key file,
\* then parse the address, decode the keys and bring the WireGuard device
\* up.  A panic is not recovered: the process prints the trace on stderr
\* and exits with status 2, whatever run() has deferred.
S2NewWgProxy ==
    /\ pc["p2"] = "readkey"
    /\ LET ourIP == ParseArgs(argv["p2"]).WgIP
       IN \E read \in BOOLEAN, ok \in BOOLEAN :
             IF read /\ MustParseAddrPanics(ourIP)
             THEN /\ pc' = [pc EXCEPT !["p2"] = "exited"]
                  /\ ws' = [ws EXCEPT !["p2"] = Exited(2)]
                  /\ diag' = [diag EXCEPT !["p2"] = "stderr"]
                  /\ held' = {}
                  /\ UNCHANGED <<err, wgAddress, setup, wgConf>>
             ELSE LET up == /\ read /\ ok
                            /\ ParseAddr(ourIP).ok
                            /\ KeysDecode(wgConf.priv, wgConf.pub)
                  IN /\ S2Step("lock", up)
                     /\ wgAddress' = IF up THEN ParseAddr(ourIP).addr ELSE wgAddress
                     /\ setup' = IF up THEN Append(setup, "wg") ELSE setup
                     /\ wgConf' = IF up THEN [wgConf EXCEPT !.dev = IpcSet(wgConf.priv, wgConf.pub)]
                                        ELSE wgConf
                     \* the device is made at line 48 of part_003; dev.IpcSet
                     \* and dev.Up may still fail then
                     /\ \E made \in BOOLEAN :
                           held' = IF up \/ (made /\ read /\ KeysDecode(wgConf.priv, wgConf.pub))
                                   THEN held \cup {"wgdev"} ELSE held
                     /\ UNCHANGED <<ws, diag>>
    /\ UNCHANGED <<hostUid, hostGid, lookup, target, argv, resolved, uidMap,
                   gidMap, cred, curThread, locked, threadNs, procNs, unshareThread,
                   forkThread, mounted, etc, sys3, srv>>
    /\ UNCHANGED flowVars

\* lines 219-221
S2LockOSThread ==
    /\ pc["p2"] = "lock"
    /\ locked' = LockOSThread
    /\ S2Step("unshare", TRUE)
    /\ UNCHANGED <<hostUid, hostGid, lookup, target, argv, ws, diag, resolved, uidMap,
                   gidMap, cred, curThread, threadNs, procNs, unshareThread,
                   forkThread, mounted, setup, wgConf, held, etc, sys3, srv>>
    /\ UNCHANGED proxyVars

\* lines 223-226: unshare(CLONE_NEWNET) moves the calling thread, and only
\* it, to a new network namespace; it needs privilege in the user namespace
S2Unshare ==
    /\ pc["p2"] = "unshare"
    /\ \E ok \in BOOLEAN :
          IF ok /\ SeenIn2(cred["p2"]).uid = 0
          THEN /\ threadNs' = [threadNs EXCEPT ![curThread] = "new"]
               /\ unshareThread' = curThread
               /\ setup' = Append(setup, "netns")
               /\ S2Step("netsetup", TRUE)
          ELSE /\ UNCHANGED <<threadNs, unshareThread, setup>>
               /\ S2Step("netsetup", FALSE)
    /\ UNCHANGED <<hostUid, hostGid, lookup, target, argv, ws, diag, resolved, uidMap,
                   gidMap, cred, curThread, locked, procNs, forkThread, mounted, wgConf, held, etc, sys3, srv>>
    /\ UNCHANGED proxyVars

\* lines 228-307: TUN device, link up, address, default routes, loopback
S2NetSetup ==
    /\ pc["p2"] = "netsetup"
    /\ \E k \in 0..Len(NetSteps), route6 \in BOOLEAN :
          /\ k < Len(NetSteps) => NetFailable(NetSteps[k + 1])
          /\ setup' = setup \o StepsDone(NetSteps, k, route6)
          /\ held' = IF k >= 1 THEN held \cup {"tun"} ELSE held
          /\ S2Step("overlay", k = Len(NetSteps))
    /\ UNCHANGED <<hostUid, hostGid, lookup, target, argv, ws, diag, resolved, uidMap,
                   gidMap, cred, curThread, locked, threadNs, procNs, unshareThread,
                   forkThread, mounted, wgConf, etc, sys3, srv>>
    /\ UNCHANGED proxyVars

\* variant of OverlayWanted: the overlay is made whatever /etc is
OverlayAlways(a, st) == ~a.NoOverlay

\* line 310: err == nil && st.IsDir() && !args.NoOverlay
OverlayWanted(a, st) == st = "dir" /\ ~a.NoOverlay

\* lines 309-319: the /etc overlay
S2Overlay ==
    /\ pc["p2"] = "overlay"
    /\ \E st \in {"dir", "other"}, ok \in BOOLEAN :
          /\ etc' = st
          /\ IF OverlayWanted(ParseArgs(argv["p2"]), st)
             THEN /\ mounted' = ok
                  /\ setup' = IF ok THEN Append(setup, "overlay") ELSE setup
                  /\ S2Step("stack", ok)
             ELSE /\ mounted' = mounted
                  /\ setup' = setup
                  /\ S2Step("stack", TRUE)
    /\ UNCHANGED <<hostUid, hostGid, lookup, target, argv, ws, diag, resolved, uidMap,
                   gidMap, cred, curThread, locked, threadNs, procNs, unshareThread,
                   forkThread, wgConf, held, sys3, srv>>
    /\ UNCHANGED proxyVars

\* lines 321-435: environment, TUN-side stack, forwarders, NIC, routes
S2BuildStack ==
    /\ pc["p2"] = "stack"
    /\ \E k \in 0..Len(StackSteps) :
          /\ k < Len(StackSteps) => StackSteps[k + 1] \in StackFailable
          /\ setup' = setup \o StepsDone(StackSteps, k, TRUE)
          /\ S2Step("start3", k = Len(StackSteps))
    /\ UNCHANGED <<hostUid, hostGid, lookup, target, argv, ws, diag, resolved, uidMap,
                   gidMap, cred, curThread, locked, threadNs, procNs, unshareThread,
                   forkThread, mounted, wgConf, held, etc, sys3, srv>>
    /\ UNCHANGED proxyVars

\* lines 437-469: cmd.Start clones stage 3 from the calling thread, in a
\* second user namespace
S2Start ==
    /\ pc["p2"] = "start3"
    /\ LET a == ParseArgs(argv["p2"])
           um == Stage3UidMap(a)
           gm == Stage3GidMap(a)
           me == SeenIn2(cred["p2"])
       IN \E ok \in BOOLEAN :
          IF /\ ok
             /\ MapWritePermitted(um, me.uid, me.uid = 0, uidMap["ns2"])
             /\ MapWritePermitted(gm, me.gid, me.uid = 0, gidMap["ns2"])
          THEN /\ uidMap' = [uidMap EXCEPT !["ns3"] = um]
               /\ gidMap' = [gidMap EXCEPT !["ns3"] = gm]
               /\ argv' = [argv EXCEPT !["p3"] = Stage3Argv(a)]
               /\ ws' = [ws EXCEPT !["p3"] = Running]
               /\ cred' = [cred EXCEPT !["p3"] = cred["p2"]]
               /\ procNs' = [procNs EXCEPT !["p3"] = threadNs[curThread]]
               /\ forkThread' = curThread
               /\ pc' = [pc EXCEPT !["p2"] = "wait", !["p3"] = "start"]
               /\ err' = err
               /\ setup' = Append(setup, "stage3")
          ELSE /\ S2Step("wait", FALSE)
               /\ setup' = setup
               /\ UNCHANGED <<uidMap, gidMap, argv, ws, cred, procNs, forkThread>>
    /\ UNCHANGED <<hostUid, hostGid, lookup, target, diag, resolved, curThread, locked,
                   threadNs, unshareThread, mounted, wgConf, held, etc, sys3, srv>>
    /\ UNCHANGED proxyVars

\* lines 471-476: cmd.Wait
\* variant of WaitReturns: the flows ProxyConn serves are joined first
WaitJoinsFlows(w) == w.st \in {"exited", "signaled"} /\ fpc \in {"idle", "returned"}

\* cmd.Wait, line 472: stage 3 was given the stage's own files as its
\* standard streams, so the wait returns as soon as the process has ended;
\* run() joins no goroutine and closes no device before it returns
WaitReturns(w) == w.st \in {"exited", "signaled"}

\* lines 471-476
S2Wait ==
    /\ pc["p2"] = "wait"
    /\ WaitReturns(ws["p3"])
    /\ pc' = [pc EXCEPT !["p2"] = "ret"]
    /\ err' = [err EXCEPT !["p2"] =
                  IF WaitErr(ws["p3"]) = NilErr THEN NilErr ELSE Wrap(WaitErr(ws["p3"]))]
    /\ UNCHANGED <<hostUid, hostGid, lookup, target, argv, ws, diag, resolved, uidMap,
                   gidMap, cred, curThread, locked, threadNs, procNs, unshareThread,
                   forkThread, mounted, setup, wgConf, held, etc, sys3, srv>>
    /\ UNCHANGED proxyVars

(***************************************************************************)
(* Stage 3: run() lines 156-192, and the target command.                   *)
(***************************************************************************)
\* setuid/setgid inside the second namespace: the id must be mapped, and a
\* process that is not root there may only name the id it already has
SetIdPermitted(want, seenUid, seenId, hostId) ==
    /\ hostId # NoId
    /\ (seenUid = 0 \/ want = seenId)

\* variant of AfterSetIdError: stage 3 goes on to launch the command
AfterSetIdErrorLaunch == "launch"

\* lines 166-168 and 174-176: an error of the call is returned
AfterSetIdError == "ret"

\* lines 163-169; the kernel may also refuse the call for reasons of its own
\* (a seccomp filter, a security module)
S3Setgid ==
    /\ pc["p3"] = "start"
    /\ StageOf(argv["p3"]) = 3
    /\ LET a == ParseArgs(argv["p3"])
           me == SeenIn3(cred["p3"])
       IN /\ a.ok
          /\ IF a.GID = 0
             THEN /\ pc' = [pc EXCEPT !["p3"] = "setuid"]
                  /\ UNCHANGED <<cred, err, sys3>>
             ELSE \E ok \in BOOLEAN :
                  IF ok /\ SetIdPermitted(a.GID, me.uid, me.gid, HostGidOf3(a.GID))
                  THEN /\ cred' = [cred EXCEPT !["p3"].gid = HostGidOf3(a.GID)]
                       /\ pc' = [pc EXCEPT !["p3"] = "setuid"]
                       /\ err' = err
                       /\ sys3' = Append(sys3, "setgid")
                  ELSE /\ pc' = [pc EXCEPT !["p3"] = AfterSetIdError]
                       /\ err' = [err EXCEPT !["p3"] = Wrap(NewErr)]
                       /\ cred' = cred
                       /\ sys3' = Append(sys3, "setgid failed")
    /\ UNCHANGED <<hostUid, hostGid, lookup, target, argv, ws, diag, resolved, uidMap,
                   gidMap, curThread, locked, threadNs, procNs, unshareThread,
                   forkThread, mounted, setup, wgConf, held, etc, srv>>
    /\ UNCHANGED proxyVars

\* lines 171-177
S3Setuid ==
    /\ pc["p3"] = "setuid"
    /\ LET a == ParseArgs(argv["p3"])
           me == SeenIn3(cred["p3"])
       IN IF a.UID = 0
          THEN /\ pc' = [pc EXCEPT !["p3"] = "launch"]
               /\ UNCHANGED <<cred, err, sys3>>
          ELSE \E ok \in BOOLEAN :
               IF ok /\ SetIdPermitted(a.UID, me.uid, me.uid, HostUidOf3(a.UID))
               THEN /\ cred' = [cred EXCEPT !["p3"].uid = HostUidOf3(a.UID)]
                    /\ pc' = [pc EXCEPT !["p3"] = "launch"]
                    /\ err' = err
                    /\ sys3' = Append(sys3, "setuid")
               ELSE /\ pc' = [pc EXCEPT !["p3"] = AfterSetIdError]
                    /\ err' = [err EXCEPT !["p3"] = Wrap(NewErr)]
                    /\ cred' = cred
                    /\ sys3' = Append(sys3, "setuid failed")
    /\ UNCHANGED <<hostUid, hostGid, lookup, target, argv, ws, diag, resolved, uidMap,
                   gidMap, curThread, locked, threadNs, procNs, unshareThread,
                   forkThread, mounted, setup, wgConf, held, etc, srv>>
    /\ UNCHANGED proxyVars

\* lines 181-187: cmd.Run starts the command the user asked for
S3Launch ==
    /\ pc["p3"] = "launch"
    /\ IF target = NotFound
       THEN /\ pc' = [pc EXCEPT !["p3"] = "ret"]
            /\ err' = [err EXCEPT !["p3"] = Wrap(NewErr)]
            /\ sys3' = Append(sys3, "exec failed")
            /\ UNCHANGED <<argv, ws, cred, procNs>>
       ELSE /\ argv' = [argv EXCEPT !["child"] = ParseArgs(argv["p3"]).Command]
            /\ ws' = [ws EXCEPT !["child"] = Running]
            /\ cred' = [cred EXCEPT !["child"] = cred["p3"]]
            /\ procNs' = [procNs EXCEPT !["child"] = procNs["p3"]]
            /\ pc' = [pc EXCEPT !["p3"] = "wait", !["child"] = "running"]
            /\ err' = err
            /\ sys3' = Append(sys3, "exec")
    /\ UNCHANGED <<hostUid, hostGid, lookup, target, diag, resolved, uidMap, gidMap,
                   curThread, locked, threadNs, unshareThread, forkThread, mounted, setup, wgConf, held, etc, srv>>
    /\ UNCHANGED proxyVars

\* the target command ends
ChildExit ==
    /\ pc["child"] = "running"
    /\ ws' = [ws EXCEPT !["child"] = target]
    /\ pc' = [pc EXCEPT !["child"] = "exited"]
    /\ UNCHANGED <<hostUid, hostGid, lookup, target, err, argv, diag, resolved, uidMap,
                   gidMap, cred, curThread, locked, threadNs, procNs, unshareThread,
                   forkThread, mounted, setup, wgConf, held, etc, sys3, srv>>
    /\ UNCHANGED proxyVars

\* lines 187-191: cmd.Run returns
S3Wait ==
    /\ pc["p3"] = "wait"
    /\ ws["child"].st \in {"exited", "signaled"}
    /\ pc' = [pc EXCEPT !["p3"] = "ret"]
    /\ err' = [err EXCEPT !["p3"] =
                  IF WaitErr(ws["child"]) = NilErr THEN NilErr
                  ELSE Wrap(WaitErr(ws["child"]))]
    /\ UNCHANGED <<hostUid, hostGid, lookup, target, argv, ws, diag, resolved, uidMap,
                   gidMap, cred, curThread, locked, threadNs, procNs, unshareThread,
                   forkThread, mounted, setup, wgConf, held, etc, sys3, srv>>
    /\ UNCHANGED proxyVars

(***************************************************************************)
(* main(): run() has returned; stage 2's deferred calls (mount.Remove,     *)
(* runtime.UnlockOSThread) have run; the process exits.                    *)
(***************************************************************************)
Main(p) ==
    /\ pc[p] = "ret"
    /\ ws' = [ws EXCEPT ![p] = MainExit(err[p]).status]
    /\ diag' = [diag EXCEPT ![p] = MainExit(err[p]).diag]
    /\ pc' = [pc EXCEPT ![p] = "exited"]
    /\ mounted' = IF p = "p2" THEN FALSE ELSE mounted
    /\ setup' = setup
    /\ wgConf' = wgConf
    /\ held' = IF p = "p2" THEN {} ELSE held
    /\ etc' = etc
    /\ sys3' = sys3
    /\ srv' = srv
    /\ locked' = IF p = "p2" THEN FALSE ELSE locked
    /\ UNCHANGED <<hostUid, hostGid, lookup, target, err, argv, resolved, uidMap,
                   gidMap, cred, curThread, threadNs, procNs, unshareThread,
                   forkThread>>
    /\ UNCHANGED proxyVars

MainReturn == \E p \in Stages : Main(p)

(***************************************************************************)
(* The bootstrap specification.                                            *)
(***************************************************************************)
Dirs == {"up", "down"}
Conns == {"inner", "outer"}

NoReq == [proto |-> "none", src |-> NoAddrPort, dst |-> NoAddrPort]
NoDial == [network |-> "none", laddr |-> NoAddrPort, raddr |-> NoAddrPort]
NoConn == [up |-> FALSE, proto |-> "none", local |-> NoAddrPort, remote |-> NoAddrPort]
Open == [rd |-> FALSE, wr |-> FALSE]

\* no flow has arrived
NoEcho == [requests |-> 0, carried |-> 0, replies |-> 0]

FlowIdle ==
    /\ req = NoReq
    /\ fpc = "idle"
    /\ inner = "none"
    /\ iconn = NoConn
    /\ dialed = NoDial
    /\ outer = NoConn
    /\ sent = [d \in Dirs |-> 0]
    /\ fin = [d \in Dirs |-> FALSE]
    /\ rcvq = [d \in Dirs |-> <<>>]
    /\ buf = [d \in Dirs |-> <<>>]
    /\ dlv = [d \in Dirs |-> <<>>]
    /\ cpc = [d \in Dirs |-> "idle"]
    /\ cerr = [d \in Dirs |-> "none"]
    /\ closeWrites = [d \in Dirs |-> 0]
    /\ shut = [c \in Conns |-> Open]
    /\ reset = [c \in Conns |-> FALSE]
    /\ crashed = FALSE
    /\ logged = "none"
    /\ tunq = <<>>
    /\ dispatcher = "free"
    /\ cancelled = FALSE
    /\ echo = NoEcho
    /\ others = {}

Init == SupInit /\ wgAddress = NoAddr /\ FlowIdle

Next ==
    \/ S1Resolve
    \/ S1Spawn
    \/ S1Wait
    \/ Migrate
    \/ S2CheckArgs
    \/ S2NewWgProxy
    \/ S2LockOSThread
    \/ S2Unshare
    \/ S2NetSetup
    \/ S2Overlay
    \/ S2BuildStack
    \/ S2Start
    \/ S2Wait
    \/ S3Setgid
    \/ S3Setuid
    \/ S3Launch
    \/ ChildExit
    \/ S3Wait
    \/ MainReturn

Spec == Init /\ [][Next]_vars

\* the texts --wg-address is given: an address, and a text that is none
WgAddressTexts == {AddrString(DefaultWgAddress), <<"bogus">>}

\* invocations that give all three required flags and any address and key
\* texts; the ids and the target's end do not bear on the configuration
ConfigInit ==
    /\ InvokedWith(ProgName, WgAddressTexts, {"none", "wg-address"}, KeyTexts, {<<>>})
    /\ hostUid = 0
    /\ hostGid = 0
    /\ target = Exited(0)
    /\ wgAddress = NoAddr
    /\ FlowIdle

ConfigSpec == ConfigInit /\ [][Next]_vars

\* invocations with and without --no-overlay; the ids do not bear on the
\* overlay
OverlayInit ==
    /\ InvokedWith(ProgName, {AddrString(DefaultWgAddress)}, {"none"}, {GoodKey},
                   {<<>>, <<Opt("no-overlay")>>})
    /\ hostUid = 0
    /\ hostGid = 0
    /\ wgAddress = NoAddr
    /\ FlowIdle

OverlaySpec == OverlayInit /\ [][Next]_vars

\* the commands an invocation gives: none, plain words, and words that look
\* like options of the program or like the separator
Commands ==
    { <<>>,
      << <<"cmd">> >>,
      << <<"cmd">>, <<"arg">> >>,
      << <<"cmd">>, <<"-", "x">> >>,
      << <<"cmd">>, Opt("gid"), Itoa(1) >>,
      << <<"cmd">>, Opt("no-overlay") >>,
      << <<"cmd">>, DashDash, <<"arg">> >>,
      << Opt("user"), UserName >> }

\* no word of the command starts with a dash
Plain(c) == \A i \in 1..Len(c) : ~HasPrefix(c[i], "-") /\ ~HasPrefix(c[i], "--")

\* os.Args of an invocation that gives the command c, after "--" or not
CommandLine(c, dashed) ==
    <<ProgName>> \o WgArgs(AddrString(DefaultWgAddress), "none")
                 \o (IF dashed THEN <<DashDash>> ELSE <<>>) \o c

\* invocations by root that give a command of Commands; without "--" only a
\* plain one
CommandInit ==
    /\ \E c \in Commands, dashed \in BOOLEAN :
          /\ dashed \/ Plain(c)
          /\ argv = [p \in Procs |-> IF p = "p1" THEN CommandLine(c, dashed) ELSE <<>>]
    /\ lookup = NoUser
    /\ Started({GoodKey})
    /\ srv = NoServer
    /\ hostUid = 0
    /\ hostGid = 0
    /\ wgAddress = NoAddr
    /\ FlowIdle

CommandSpec == CommandInit /\ [][Next]_vars

(***************************************************************************)
(* The server program, cmd/wirecagesrv/main.go.                            *)
(***************************************************************************)
\* the state of the client program, which the server program does not touch
clientVars == <<hostUid, hostGid, lookup, target, pc, err, argv, ws, diag,
                resolved, uidMap, gidMap, cred, curThread, locked, threadNs,
                procNs, unshareThread, forkThread, mounted, setup, wgConf,
                held, etc, sys3, proxyVars>>

\* the owners of the UDP port p
Owners(bound, p) == {b.who : b \in {x \in bound : x.port = p}}

\* bind(2) of a UDP socket to port: the ports the socket may get. Port 0 asks
\* for any port without an owner; another port is got only if it has no
\* owner (EADDRINUSE otherwise: neither conn.NewDefaultBind nor net.ListenUDP
\* sets SO_REUSEPORT)
BindUDP(bound, port) ==
    IF port = 0 THEN {p \in Ports : Owners(bound, p) = {}}
    ELSE IF Owners(bound, port) = {} THEN {port} ELSE {}

\* the record of one bind: who asked, for which port, and who owned it then
\* (for port 0: who owned the last port the kernel could have given)
Try(s, who) ==
    [who |-> who, port |-> s.ListenPort,
     owners |-> IF s.ListenPort # 0 THEN Owners(s.bound, s.ListenPort)
                ELSE IF BindUDP(s.bound, 0) = {} THEN {"other"} ELSE {}]

\* the process ends (log.Fatalf exits with 1, a panic with 2): the kernel
\* closes its sockets
SrvExit(s, at, cause, code) ==
    [s EXCEPT !.pc = at, !.err = cause, !.code = code,
              !.bound = {b \in s.bound : b.who = "other"}]

\* derivePublicKey, lines 474-494: the text is base64 of 32 bytes
DerivePublicKey(k) == k.b64 /\ Len(k.bytes) = NoiseKeyLen

\* main, lines 68-105: the private key is generated, read from the file or
\* taken from the flag, and the public key derived unless it is given
SrvKeys ==
    /\ srv.pc = "main"
    /\ \E read \in BOOLEAN :
          srv' = IF srv.keyFrom = "none"
                 THEN [srv EXCEPT !.pc = "start", !.PrivateKey = GoodKey,
                                  !.PublicKey = TRUE]
                 ELSE IF srv.keyFrom = "file" /\ ~read
                 THEN SrvExit(srv, "fatal", "read key file", 1)
                 ELSE IF ~srv.PublicKey /\ ~DerivePublicKey(srv.PrivateKey)
                 THEN SrvExit(srv, "fatal", "derive public key", 1)
                 ELSE [srv EXCEPT !.pc = "start", !.PublicKey = TRUE]
    /\ UNCHANGED clientVars

\* Server.setupWireGuardServer, lines 164-200, and Start's and main's
\* handling of its error, lines 147-149 and 126-128: the TUN is made at
\* ServerIP, the key decoded and copied, the device given the key and
\* listen_port, and brought up, which binds the device's UDP socket
SrvSetupWireGuardServer ==
    /\ srv.pc = "start"
    /\ \E tun \in BOOLEAN :
          IF MustParseAddrPanics(srv.ServerIP)
          THEN srv' = SrvExit(srv, "panicked", "server ip", 2)
          ELSE IF ~tun
          THEN srv' = SrvExit(srv, "fatal", "tun", 1)
          ELSE IF ~srv.PrivateKey.b64
          THEN srv' = SrvExit(srv, "fatal", "private key", 1)
          ELSE LET dev == [private_key |-> CopyKey(srv.PrivateKey.bytes),
                           listen_port |-> srv.ListenPort, up |-> FALSE]
                   s1 == [srv EXCEPT !.device = dev,
                                     !.tries = Append(@, Try(srv, "device"))]
                   got == BindUDP(srv.bound, srv.ListenPort)
               IN  IF got = {}
                   THEN srv' = SrvExit(s1, "fatal", "up", 1)
                   ELSE \E p \in got :
                           srv' = [s1 EXCEPT
                                      !.pc = "nat",
                                      !.device = [dev EXCEPT !.up = TRUE],
                                      !.bound = @ \cup {[who |-> "device", port |-> p]}]
    /\ UNCHANGED clientVars

\* Server.setupNATStack, lines 202-207: starts a goroutine and returns nil
SrvSetupNATStack ==
    /\ srv.pc = "nat"
    /\ srv' = [srv EXCEPT !.pc = "listeners"]
    /\ UNCHANGED clientVars

\* Server.startListeners, lines 391-404, and Start's and main's handling of
\* its error, lines 155-157 and 126-128: net.ListenUDP on ListenPort
SrvStartListeners ==
    /\ srv.pc = "listeners"
    /\ LET s1 == [srv EXCEPT !.tries = Append(@, Try(srv, "listener"))]
           got == BindUDP(srv.bound, srv.ListenPort)
       IN  IF got = {}
           THEN srv' = SrvExit(s1, "fatal", "listen", 1)
           ELSE \E p \in got :
                   srv' = [s1 EXCEPT
                              !.pc = "serving",
                              !.bound = @ \cup {[who |-> "listener", port |-> p]}]
    /\ UNCHANGED clientVars

\* main, lines 130-142, and Server.Stop, lines 406-418: on SIGINT or SIGTERM
\* the device and the listener are closed and main returns
SrvStop ==
    /\ srv.pc = "serving"
    /\ srv' = [SrvExit(srv, "stopped", "none", 0) EXCEPT !.device.up = FALSE]
    /\ UNCHANGED clientVars

\* the texts --server-ip is given: an address, and a text that is none
ServerIPTexts == {AddrString(DefaultServerIP), <<"bogus">>}

\* the server is started with any port (0 asks the kernel for one), any key
\* from any source, and any of the host's ports owned by other processes;
\* the client program stays at its start
SrvInit ==
    /\ argv = [p \in Procs |-> <<>>]
    /\ lookup = NoUser
    /\ Started({GoodKey})
    /\ hostUid = 0
    /\ hostGid = 0
    /\ target = Exited(0)
    /\ wgAddress = NoAddr
    /\ FlowIdle
    /\ \E port \in 0..MaxPort, keyFrom \in {"none", "file", "flag"},
          key \in KeyTexts, pub \in BOOLEAN, ip \in ServerIPTexts,
          taken \in SUBSET Ports :
          /\ keyFrom = "none" => key = GoodKey /\ ~pub
          /\ srv = SrvConfig(port, keyFrom, key, pub, ip, taken)

SrvNext ==
    \/ SrvKeys
    \/ SrvSetupWireGuardServer
    \/ SrvSetupNATStack
    \/ SrvStartListeners
    \/ SrvStop

SrvSpec == SrvInit /\ [][SrvNext]_vars

(***************************************************************************)
(* Properties of the bootstrap.                                            *)
(***************************************************************************)
\* the ids the invocation asks for: the invoking user's, or those of --user
TargetIds ==
    IF ParseArgs(argv["p1"]).User = EmptyStr
    THEN [uid |-> hostUid, gid |-> hostGid]
    ELSE IF lookup.ok THEN [uid |-> Atoi(lookup.Uid), gid |-> Atoi(lookup.Gid)]
    ELSE [uid |-> NoId, gid |-> NoId]

C2_ExitCodeVerbatim ==
    target.st = "exited" /\ pc["child"] = "exited" =>
        \A p \in Stages : pc[p] = "exited" => ws[p] = Exited(target.code)

C2_Witness ==
    /\ target = Exited(42)
    /\ pc["child"] = "exited"
    /\ \A p \in Stages : pc[p] = "exited" /\ ws[p] = Exited(42)

\* C3: when the target command exits non-zero, no stage prints a fatal
\* diagnostic: each stage only exits.
C3_NoDiagnosticOnChildFailure ==
    target.st = "exited" /\ target.code # 0 /\ pc["child"] = "exited" =>
        \A p \in Stages : diag[p] = "none"

C3_Witness ==
    /\ target = Exited(1)
    /\ pc["child"] = "exited"
    /\ \A p \in Stages : pc[p] = "exited" /\ diag[p] = "none"

C5_NoHostPrivilege ==
    /\ uidMap["ns2"] # <<>> =>
          /\ uidMap["ns2"] = << IdMapEntry(0, hostUid, 1) >>
          /\ gidMap["ns2"] = << IdMapEntry(0, hostGid, 1) >>
    /\ uidMap["ns3"] # <<>> =>
          /\ uidMap["ns3"] = << IdMapEntry(TargetIds.uid, 0, 1) >>
          /\ gidMap["ns3"] = << IdMapEntry(TargetIds.gid, 0, 1) >>
    /\ \A p \in Procs : pc[p] # "none" => cred[p] = [uid |-> hostUid, gid |-> hostGid]
    /\ \A id \in Ids :
          /\ HostUidOf3(id) \in {NoId, hostUid}
          /\ HostGidOf3(id) \in {NoId, hostGid}

C5_Witness ==
    /\ pc["child"] = "running"
    /\ hostUid = 1
    /\ hostGid = 2
    /\ TargetIds = [uid |-> 2, gid |-> 0]
    /\ cred["child"] = [uid |-> 1, gid |-> 2]

\* the first required flag the invocation leaves out, "none" if it has all
MissingFlag ==
    LET a == ParseArgs(argv["p1"])
    IN IF a.WgEndpoint = EmptyStr THEN "wg-endpoint"
       ELSE IF a.WgPubKey = EmptyStr THEN "wg-public-key"
       ELSE IF a.WgPrivKeyFile = EmptyStr THEN "wg-private-key-file"
       ELSE "none"

\* C13: when a required WireGuard flag is missing, stage 2 never gets past
\* its argument checks (no key read, no WireGuard device, no unshare, no
\* stage 3, no child), it ends with status 1 after printing a diagnostic
\* whose text names the flag, and stage 1 ends with a non-zero status.
C13_MissingFlagIsFatalAtEntry ==
    MissingFlag # "none" =>
        /\ pc["p2"] \in {"none", "start", "ret", "exited"}
        /\ wgAddress = NoAddr
        /\ unshareThread = 0 /\ \A t \in Threads : threadNs[t] = "host"
        /\ pc["p3"] = "none" /\ ws["p3"] = NotStarted
        /\ pc["child"] = "none"
        /\ pc["p2"] = "exited" =>
               /\ ws["p2"] = Exited(1)
               /\ diag["p2"] # "none"
               /\ ErrorText(err["p2"]) = Opt(MissingFlag) \o <<" is required">>
        /\ pc["p1"] = "exited" => ws["p1"].st = "exited" /\ ws["p1"].code # 0

\* a run without --wg-public-key has ended
C13_Witness ==
    /\ MissingFlag = "wg-public-key"
    /\ pc["p1"] = "exited"
    /\ pc["p2"] = "exited"

\* C14: every fatal diagnostic of the supervisor (a missing flag, an argument
\* error, a failed set-up step) is written to stderr and never to stdout.
C14_DiagnosticsOnStderr ==
    \A p \in Stages : diag[p] \in {"none", "stderr"}

\* the flows are goroutines of stage 2: they run until the process ends, by
\* a return of main, a panic or a signal
Stage2Running == ~crashed /\ pc["p2"] # "exited"

(***************************************************************************)
(* One flow through stage 2: the forwarder callbacks of run() and          *)
(* wireguardProxy.ProxyConn.  Direction "up" copies from the inner         *)
(* (TUN-side) connection to the outer (WG-side) one, "down" the other way. *)
(***************************************************************************)
\* slog.Debug / slog.Error: the highest level used so far
Log(cur, level) ==
    IF level = "error" \/ cur = "error" THEN "error" ELSE "debug"

Src(d) == IF d = "up" THEN "inner" ELSE "outer"
Dst(d) == IF d = "up" THEN "outer" ELSE "inner"

\* the bytes a peer has written in a direction: byte k is the k-th written
Written(d) == [k \in 1..sent[d] |-> k]

IsPrefix(s, t) == Len(s) <= Len(t) /\ SubSeq(t, 1, Len(s)) = s

\* stage 2 while it waits for stage 3, run with --wg-address wg
Serving(wg) ==
    /\ hostUid = 1
    /\ hostGid = 1
    /\ lookup = NoUser
    /\ target = Exited(0)
    /\ resolved = [uid |-> 1, gid |-> 1]
    /\ cred = [p \in Procs |-> [uid |-> 1, gid |-> 1]]
    /\ LET a1 == Invocation(FALSE, AddrString(wg), "none")
           a2 == Stage2Argv(resolved, a1)
           a3 == Stage3Argv(ParseArgs(a2))
       IN argv = [p \in Procs |-> CASE p = "p1" -> a1
                                    [] p = "p2" -> a2
                                    [] p = "p3" -> a3
                                    [] OTHER -> ParseArgs(a3).Command]
    /\ pc = [p \in Procs |-> IF p = "child" THEN "running" ELSE "wait"]
    /\ err = [p \in Stages |-> NilErr]
    /\ ws = [p \in Procs |-> Running]
    /\ diag = [p \in Stages |-> "none"]
    /\ uidMap = [n \in {"ns2", "ns3"} |->
                    IF n = "ns2" THEN Stage2UidMap
                    ELSE Stage3UidMap(ParseArgs(argv["p2"]))]
    /\ gidMap = [n \in {"ns2", "ns3"} |->
                    IF n = "ns2" THEN Stage2GidMap
                    ELSE Stage3GidMap(ParseArgs(argv["p2"]))]
    /\ curThread = 1
    /\ locked = LockOSThread
    /\ threadNs = [t \in Threads |-> IF t = 1 THEN "new" ELSE "host"]
    /\ procNs = [p \in Procs |-> IF p \in {"p1", "p2"} THEN "host" ELSE "new"]
    /\ unshareThread = 1
    /\ forkThread = 1
    /\ mounted = TRUE
    /\ setup = <<"wg", "netns">> \o NetSteps \o <<"overlay">> \o StackSteps \o <<"stage3">>
    /\ wgConf = [priv |-> GoodKey, pub |-> GoodKey, dev |-> IpcSet(GoodKey, GoodKey)]
    /\ held = {"wgdev", "tun"}
    /\ etc = "dir"
    /\ sys3 = <<"setgid", "setuid", "exec">>
    /\ srv = NoServer
    /\ wgAddress = ParseAddr(ParseArgs(argv["p2"]).WgIP).addr

ForwarderInit == (\E wg \in Addrs : Serving(wg)) /\ FlowIdle

\* the child's first packet of a flow reaches the TUN-side stack and the
\* handler registered for its protocol is called (lines 395-396)
HandlePacket ==
    /\ Stage2Running
    /\ fpc \in {"idle", "returned"}
    /\ dispatcher = "free"
    /\ pc["child"] = "running"
    /\ \E proto \in {"tcp", "udp"}, v6 \in BOOLEAN,
          sip \in 1..MaxIp, dip \in 1..MaxIp, sp \in 1..MaxPort, dp \in 1..MaxPort :
          /\ req' = [proto |-> proto,
                     src |-> [v6 |-> v6, ip |-> sip, port |-> sp],
                     dst |-> [v6 |-> v6, ip |-> dip, port |-> dp]]
          /\ inner' = IF proto = "tcp" THEN "syn_sent" ELSE "datagram_sent"
          /\ sent' = [d \in Dirs |-> IF proto = "udp" /\ d = "up" THEN 1 ELSE 0]
          \* udp.Forwarder calls its handler on the dispatching goroutine,
          \* tcp.Forwarder starts a goroutine for it
          /\ dispatcher' = IF proto = "udp" THEN "handler" ELSE "free"
    /\ fpc' = "handler"
    /\ iconn' = NoConn
    /\ dialed' = NoDial
    /\ outer' = NoConn
    /\ fin' = [d \in Dirs |-> FALSE]
    /\ rcvq' = [d \in Dirs |-> <<>>]
    /\ buf' = [d \in Dirs |-> <<>>]
    /\ dlv' = [d \in Dirs |-> <<>>]
    /\ cpc' = [d \in Dirs |-> "idle"]
    /\ cerr' = [d \in Dirs |-> "none"]
    /\ closeWrites' = [d \in Dirs |-> 0]
    /\ shut' = [c \in Conns |-> Open]
    /\ reset' = [c \in Conns |-> FALSE]
    /\ logged' = "none"
    /\ tunq' = <<>>
    /\ UNCHANGED crashed
    /\ UNCHANGED <<supVars, wgAddress, cancelled, echo, others>>

\* tcpRequest.Accept, called at line 355 and defined outside wgcage.go: the
\* endpoint is accepted, which completes the handshake with the child; the
\* connection's local address is the address the child tried to reach
Accept(r, ok) ==
    IF ok
    THEN [err |-> FALSE,
          conn |-> [up |-> TRUE, proto |-> "tcp", local |-> r.dst, remote |-> r.src]]
    ELSE [err |-> TRUE, conn |-> NoConn]

\* gonet.NewUDPConn over r.CreateEndpoint, lines 379-384
NewUDPConn(r) == [up |-> TRUE, proto |-> "udp", local |-> r.dst, remote |-> r.src]

\* conn.RemoteAddr(): the address of the subprocess
RemoteAddr(c) == c.remote
\* conn.LocalAddr(), lines 361 and 385
LocalAddr(c) == c.local

\* conn.LocalAddr().String(), lines 361 and 385. The text is made by the
\* gonet connection, outside the program: the address and port in the form
\* of net.JoinHostPort, or, as the error branches of the callbacks provide
\* for, a text netip.ParseAddrPort rejects (here: a port with no address)
LocalAddrTexts(c) ==
    {AddrPortString(LocalAddr(c)), JoinHostPort(EmptyStr, Itoa(LocalAddr(c).port))}

\* a dial that hands the stack the subprocess's address as the local one
DialFromInner(network, addr, subprocess) ==
    [network |-> network, laddr |-> subprocess.remote, raddr |-> addr]
\* ProxyConn lines 72-79: the dial made for a flow; no local address is given
Dial(network, addr, subprocess) ==
    [network |-> network, laddr |-> NoAddrPort, raddr |-> addr]

\* the TCP forwarder callback up to the dial, lines 347-367 and ProxyConn 69-75
TcpForwarder ==
    /\ Stage2Running
    /\ fpc = "handler"
    /\ req.proto = "tcp"
    /\ \E ok \in BOOLEAN, text \in LocalAddrTexts(Accept(req, TRUE).conn) :
          LET acc == Accept(req, ok)
              addrPort == ParseAddrPort(text)
          IN IF acc.err
             THEN \* r.Complete(true): the SYN is answered with a reset
                  /\ inner' = "refused"
                  /\ fpc' = "returned"
                  /\ logged' = Log(logged, "error")
                  /\ UNCHANGED <<iconn, dialed>>
             ELSE /\ inner' = "established"
                  /\ iconn' = acc.conn
                  /\ IF addrPort.ok
                     THEN /\ dialed' = Dial("tcp", addrPort.addrPort, acc.conn)
                          /\ fpc' = "dial"
                          /\ logged' = Log(logged, "debug")
                     ELSE /\ dialed' = dialed
                          /\ fpc' = "returned"
                          /\ logged' = Log(logged, "error")
    /\ UNCHANGED <<req, outer, sent, fin, rcvq, buf, dlv, cpc, cerr, closeWrites,
                   shut, reset, crashed>>
    /\ UNCHANGED <<tunq, dispatcher>>
    /\ UNCHANGED <<supVars, wgAddress, cancelled, echo, others>>

\* the UDP forwarder callback up to the dial, lines 370-391 and ProxyConn 76-77;
\* the datagram that made the request is queued on the new endpoint
UdpForwarder ==
    /\ Stage2Running
    /\ fpc = "handler"
    /\ req.proto = "udp"
    /\ \E text \in LocalAddrTexts(NewUDPConn(req)) :
       LET conn == NewUDPConn(req)
           addrPort == ParseAddrPort(text)
       IN /\ iconn' = conn
          /\ rcvq' = [rcvq EXCEPT !["up"] = <<1>>]
          /\ IF addrPort.ok
             THEN /\ dialed' = Dial("udp", addrPort.addrPort, conn)
                  /\ fpc' = "dial"
                  /\ logged' = Log(logged, "debug")
                  /\ dispatcher' = dispatcher
             ELSE /\ dialed' = dialed
                  /\ fpc' = "returned"
                  /\ logged' = Log(logged, "error")
                  /\ dispatcher' = "free"
    /\ UNCHANGED <<req, inner, outer, sent, fin, buf, dlv, cpc, cerr, closeWrites,
                   shut, reset, crashed>>
    /\ UNCHANGED tunq
    /\ UNCHANGED <<supVars, wgAddress, cancelled, echo, others>>

\* netstack.CreateNetTUN (newWgProxy lines 25-29) gives the WG-side stack one
\* address and a default route for that address's family only
Routable(a) == a.v6 = wgAddress.v6

\* the local address of a connection dialed on the WG-side stack: the one
\* asked for, else the address of the stack's NIC with a port of its choice
StackLocal(laddr, port) ==
    IF laddr = NoAddrPort THEN WithPort(wgAddress, port) ELSE laddr

\* a Close that is left out
CloseNothing(sh) == sh
\* net.Conn.Close
Close(sh) == [rd |-> TRUE, wr |-> TRUE]
\* a half-close that also closes the read side
CloseWriteBoth(sh) == [rd |-> TRUE, wr |-> TRUE]
\* CloseWriter.CloseWrite, lines 115-117
CloseWrite(sh) == [sh EXCEPT !.wr = TRUE]

\* lines 73-76 of ProxyConn: ctx is handed to the TCP dial and to nothing
\* else; the UDP dial takes no context
DialTakesCtx(network) == network = "tcp"

\* the dial returns, ProxyConn lines 80-100: on an error the subprocess's
\* connection is closed and ProxyConn returns, else the two copies start
DialDone ==
    /\ Stage2Running
    /\ fpc = "dial"
    /\ \E ok \in BOOLEAN, port \in 1..MaxPort :
          IF ok /\ Routable(dialed.raddr) /\ ~(cancelled /\ DialTakesCtx(dialed.network))
          THEN /\ outer' = [up |-> TRUE, proto |-> dialed.network,
                            local |-> StackLocal(dialed.laddr, port),
                            remote |-> dialed.raddr]
               /\ cpc' = [d \in Dirs |-> "read"]
               /\ fpc' = "copy"
               /\ UNCHANGED <<inner, shut, rcvq, dispatcher>>
          ELSE /\ shut' = [shut EXCEPT !["inner"] = Close(shut["inner"])]
               /\ inner' = IF req.proto = "tcp" THEN "closed" ELSE inner
               /\ rcvq' = [rcvq EXCEPT !["up"] = <<>>]
               /\ fpc' = "returned"
               \* ProxyConn returns, and with it the forwarder callback
               /\ dispatcher' = IF dispatcher = "handler" THEN "free" ELSE dispatcher
               /\ UNCHANGED <<outer, cpc>>
    /\ logged' = Log(logged, "debug")
    /\ UNCHANGED <<req, iconn, dialed, sent, fin, buf, dlv, cerr, closeWrites,
                   reset, crashed>>
    /\ UNCHANGED tunq
    /\ UNCHANGED <<supVars, wgAddress, cancelled, echo, others>>

\* what the source peer of a direction has sent and the source connection
\* has not received yet
InFlight(d) == IF d = "up" THEN tunq ELSE <<>>

\* the dispatcher of the fdbased link endpoint (lines 337-340) reads a packet
\* of the flow from the TUN and the stack routes it into the flow's endpoint;
\* a closed endpoint takes nothing
Dispatch ==
    /\ Stage2Running
    /\ dispatcher = "free"
    /\ iconn.up
    /\ tunq # <<>>
    /\ tunq' = Tail(tunq)
    /\ rcvq' = IF shut["inner"].rd \/ reset["inner"] THEN rcvq
               ELSE [rcvq EXCEPT !["up"] = Append(@, Head(tunq))]
    /\ UNCHANGED <<req, fpc, inner, iconn, dialed, outer, sent, fin, buf, dlv, cpc,
                   cerr, closeWrites, shut, reset, crashed, logged, dispatcher>>
    /\ UNCHANGED <<supVars, wgAddress, cancelled, echo, others>>

\* the connection a direction reads from exists and is usable by its peer
SrcUp(d) ==
    /\ IF d = "up" THEN iconn.up ELSE outer.up
    /\ ~reset[Src(d)]
    /\ ~shut[Src(d)].rd

\* the peer at the source of a direction writes one more byte (datagram)
PeerWrite(d) ==
    /\ Stage2Running
    /\ SrcUp(d)
    /\ ~fin[d]
    /\ sent[d] < MaxBytes
    /\ sent' = [sent EXCEPT ![d] = @ + 1]
    \* what the child sends waits in the TUN for the dispatcher, what the
    \* remote sends is queued on the outer connection by the WG-side stack
    /\ IF d = "up"
       THEN tunq' = Append(tunq, sent[d] + 1) /\ rcvq' = rcvq
       ELSE rcvq' = [rcvq EXCEPT ![d] = Append(@, sent[d] + 1)] /\ tunq' = tunq
    /\ UNCHANGED <<req, fpc, inner, iconn, dialed, outer, fin, buf, dlv, cpc, cerr,
                   closeWrites, shut, reset, crashed, logged>>
    /\ UNCHANGED dispatcher
    /\ UNCHANGED <<supVars, wgAddress, cancelled, echo, others>>

\* the peer at the source of a TCP direction closes its write side
PeerCloseWrite(d) ==
    /\ Stage2Running
    /\ req.proto = "tcp"
    /\ SrcUp(d)
    /\ ~fin[d]
    /\ fin' = [fin EXCEPT ![d] = TRUE]
    /\ UNCHANGED <<req, fpc, inner, iconn, dialed, outer, sent, rcvq, buf, dlv, cpc,
                   cerr, closeWrites, shut, reset, crashed, logged>>
    /\ UNCHANGED <<tunq, dispatcher>>
    /\ UNCHANGED <<supVars, wgAddress, cancelled, echo, others>>

\* the peer of a connection aborts it (TCP reset, ICMP error on UDP): what
\* it had sent and was not read is dropped
PeerReset(c) ==
    /\ Stage2Running
    /\ fpc = "copy"
    /\ ~reset[c]
    /\ reset' = [reset EXCEPT ![c] = TRUE]
    /\ rcvq' = [d \in Dirs |-> IF Src(d) = c THEN <<>> ELSE rcvq[d]]
    /\ tunq' = IF c = "inner" THEN <<>> ELSE tunq
    /\ UNCHANGED <<req, fpc, inner, iconn, dialed, outer, sent, fin, buf, dlv, cpc,
                   cerr, closeWrites, shut, crashed, logged>>
    /\ UNCHANGED dispatcher
    /\ UNCHANGED <<supVars, wgAddress, cancelled, echo, others>>

\* one src.Read of io.Copy (proxyBytes lines 106-107): an error, some of the
\* bytes received (one datagram), or EOF once the peer closed its write side
CopyRead(d) ==
    /\ Stage2Running
    /\ cpc[d] = "read"
    /\ IF reset[Src(d)] \/ shut[Src(d)].rd
       THEN /\ cerr' = [cerr EXCEPT ![d] = "read"]
            /\ logged' = Log(logged, "error")
            /\ cpc' = [cpc EXCEPT ![d] = "closewrite"]
            /\ UNCHANGED <<rcvq, buf>>
       ELSE IF rcvq[d] # <<>>
       THEN /\ \E n \in 1..(IF req.proto = "udp" THEN 1 ELSE Len(rcvq[d])) :
                  /\ buf' = [buf EXCEPT ![d] = SubSeq(rcvq[d], 1, n)]
                  /\ rcvq' = [rcvq EXCEPT ![d] = SubSeq(@, n + 1, Len(@))]
            /\ cpc' = [cpc EXCEPT ![d] = "write"]
            /\ UNCHANGED <<cerr, logged>>
       ELSE /\ fin[d]
            /\ InFlight(d) = <<>>
            /\ cpc' = [cpc EXCEPT ![d] = "closewrite"]
            /\ logged' = Log(logged, "debug")
            /\ UNCHANGED <<rcvq, buf, cerr>>
    /\ UNCHANGED <<req, fpc, inner, iconn, dialed, outer, sent, fin, dlv,
                   closeWrites, shut, reset, crashed>>
    /\ UNCHANGED <<tunq, dispatcher>>
    /\ UNCHANGED <<supVars, wgAddress, cancelled, echo, others>>

\* a write that takes only the last byte of what it is given
ConnWriteShort(q, chunk) == Append(q, chunk[Len(chunk)])
\* net.Conn.Write: the whole chunk is appended to what the peer receives
ConnWrite(q, chunk) == q \o chunk

\* one dst.Write of io.Copy: the chunk read is written in full, or the copy
\* ends with the write's error
CopyWrite(d) ==
    /\ Stage2Running
    /\ cpc[d] = "write"
    /\ IF reset[Dst(d)] \/ shut[Dst(d)].wr
       THEN /\ cerr' = [cerr EXCEPT ![d] = "write"]
            /\ cpc' = [cpc EXCEPT ![d] = "closewrite"]
            /\ logged' = Log(logged, "error")
            /\ dlv' = dlv
       ELSE /\ dlv' = [dlv EXCEPT ![d] = ConnWrite(@, buf[d])]
            /\ cpc' = [cpc EXCEPT ![d] = "read"]
            /\ UNCHANGED <<cerr, logged>>
    /\ buf' = [buf EXCEPT ![d] = <<>>]
    /\ UNCHANGED <<req, fpc, inner, iconn, dialed, outer, sent, fin, rcvq,
                   closeWrites, shut, reset, crashed>>
    /\ UNCHANGED <<tunq, dispatcher>>
    /\ UNCHANGED <<supVars, wgAddress, cancelled, echo, others>>

\* proxyBytes returned, lines 93 and 98: the destination is asserted to be a
\* CloseWriter, which a *gonet.UDPConn is not (the assertion panics), and
\* its write side is closed
CopyCloseWrite(d) ==
    /\ Stage2Running
    /\ cpc[d] = "closewrite"
    /\ IF req.proto = "udp"
       THEN /\ crashed' = TRUE
            \* an unrecovered panic ends the process with status 2; the
            \* calls run() deferred are not made
            /\ pc' = [pc EXCEPT !["p2"] = "exited"]
            /\ ws' = [ws EXCEPT !["p2"] = Exited(2)]
            /\ diag' = [diag EXCEPT !["p2"] = "stderr"]
            /\ UNCHANGED <<shut, closeWrites, cpc>>
       ELSE /\ shut' = [shut EXCEPT ![Dst(d)] = CloseWrite(@)]
            /\ closeWrites' = [closeWrites EXCEPT ![d] = @ + 1]
            /\ cpc' = [cpc EXCEPT ![d] = "done"]
            /\ crashed' = crashed
            /\ UNCHANGED <<pc, ws, diag>>
    /\ UNCHANGED <<req, fpc, inner, iconn, dialed, outer, sent, fin, rcvq, buf, dlv,
                   cerr, reset, logged>>
    /\ UNCHANGED <<tunq, dispatcher>>
    /\ UNCHANGED <<hostUid, hostGid, lookup, target, err, argv, resolved, uidMap,
                   gidMap, cred, curThread, locked, threadNs, procNs, unshareThread,
                   forkThread, mounted, setup, wgConf, held, etc, sys3, srv>>
    /\ UNCHANGED <<wgAddress, cancelled, echo, others>>

\* wait.Wait() returns, line 101; neither connection is closed
ProxyReturn ==
    /\ Stage2Running
    /\ fpc = "copy"
    /\ \A d \in Dirs : cpc[d] = "done"
    /\ fpc' = "returned"
    /\ UNCHANGED <<req, inner, iconn, dialed, outer, sent, fin, rcvq, buf, dlv, cpc,
                   cerr, closeWrites, shut, reset, crashed, logged>>
    /\ dispatcher' = IF dispatcher = "handler" THEN "free" ELSE dispatcher
    /\ UNCHANGED tunq
    /\ UNCHANGED <<supVars, wgAddress, cancelled, echo, others>>

\* a flow from its first packet to the outcome of the dial
ForwarderNext ==
    \/ HandlePacket
    \/ TcpForwarder
    \/ UdpForwarder
    \/ DialDone

ForwarderSpec == ForwarderInit /\ [][ForwarderNext]_vars

\* what the ICMP handlers hand to the proxy for a packet: nothing. The
\* handlers call neither ProxyConn nor the device, and ProxyConn has no
\* network but tcp and udp
IcmpForwarded(pkt) == <<>>

\* lines 400 and 404: what both ICMP handlers return. A handler registered
\* with SetTransportProtocolHandler tells by TRUE that it handled the
\* packet, as the forwarders' HandlePacket of lines 395-396 do
IcmpHandlerReturn == FALSE

\* lines 398-405: an ICMP or ICMPv6 echo request of the child reaches the
\* stack; the handler logs it at debug level and reports it handled. Whether
\* the stack answers the request by itself is not in the program's text:
\* both outcomes are taken
HandleIcmp ==
    /\ Stage2Running
    /\ pc["child"] = "running"
    /\ dispatcher = "free"
    /\ echo.requests < MaxPings
    /\ \E dst \in Addrs, answered \in BOOLEAN :
          echo' = [requests |-> echo.requests + 1,
                   carried |-> echo.carried + Len(IcmpForwarded(dst)),
                   replies |-> echo.replies + (IF answered THEN 1 ELSE 0)]
    /\ logged' = Log(logged, "debug")
    /\ UNCHANGED <<req, fpc, inner, iconn, dialed, outer, sent, fin, rcvq, buf, dlv,
                   cpc, cerr, closeWrites, shut, reset, crashed, tunq, dispatcher,
                   cancelled, others>>
    /\ UNCHANGED <<supVars, wgAddress>>

\* flows and pings of the child
IcmpNext == ForwarderNext \/ HandleIcmp

IcmpSpec == ForwarderInit /\ [][IcmpNext]_vars

\* the flow whose bytes are followed: the child at host 2 reaches for host 1
CopiedFlow(proto) ==
    [proto |-> proto,
     src |-> [v6 |-> FALSE, ip |-> 2, port |-> 1],
     dst |-> [v6 |-> FALSE, ip |-> 1, port |-> 1]]

\* ProxyConn has been called for the flow and is dialing
CopyInit ==
    /\ Serving(DefaultWgAddress)
    /\ \E proto \in {"tcp", "udp"} :
          /\ req = CopiedFlow(proto)
          /\ inner = IF proto = "tcp" THEN "established" ELSE "datagram_sent"
          /\ iconn = IF proto = "tcp" THEN Accept(req, TRUE).conn ELSE NewUDPConn(req)
          /\ sent = [d \in Dirs |-> IF proto = "udp" /\ d = "up" THEN 1 ELSE 0]
          /\ rcvq = [d \in Dirs |-> IF proto = "udp" /\ d = "up" THEN <<1>> ELSE <<>>]
          /\ dialed = Dial(proto, ParseAddrPort(AddrPortString(LocalAddr(iconn))).addrPort,
                           iconn)
    /\ fpc = "dial"
    /\ outer = NoConn
    /\ fin = [d \in Dirs |-> FALSE]
    /\ buf = [d \in Dirs |-> <<>>]
    /\ dlv = [d \in Dirs |-> <<>>]
    /\ cpc = [d \in Dirs |-> "idle"]
    /\ cerr = [d \in Dirs |-> "none"]
    /\ closeWrites = [d \in Dirs |-> 0]
    /\ shut = [c \in Conns |-> Open]
    /\ reset = [c \in Conns |-> FALSE]
    /\ crashed = FALSE
    /\ logged = "none"
    /\ tunq = <<>>
    /\ dispatcher = IF req.proto = "udp" THEN "handler" ELSE "free"
    /\ cancelled = FALSE
    /\ echo = NoEcho
    /\ others = {}

\* the dial's outcome, the two copies and the peers of the two connections
CopyNext ==
    \/ DialDone
    \/ Dispatch
    \/ \E d \in Dirs : PeerWrite(d)
    \/ \E d \in Dirs : PeerCloseWrite(d)
    \/ \E c \in Conns : PeerReset(c)
    \/ \E d \in Dirs : CopyRead(d)
    \/ \E d \in Dirs : CopyWrite(d)
    \/ \E d \in Dirs : CopyCloseWrite(d)
    \/ ProxyReturn

CopySpec == CopyInit /\ [][CopyNext]_vars

\* the context ProxyConn was given is cancelled by its caller; ProxyConn
\* reads it nowhere but in the TCP dial
Cancel ==
    /\ Stage2Running
    /\ ~cancelled
    /\ cancelled' = TRUE
    /\ UNCHANGED <<req, fpc, inner, iconn, dialed, outer, sent, fin, rcvq, buf, dlv,
                   cpc, cerr, closeWrites, shut, reset, crashed, logged, tunq,
                   dispatcher, echo, others>>
    /\ UNCHANGED <<supVars, wgAddress>>

\* a dialed flow whose context may be cancelled at any moment
CancelNext == CopyNext \/ Cancel

CancelSpec == CopyInit /\ [][CancelNext]_vars

\* the first packet of another flow is read from the TUN by the dispatcher
\* and handed to its forwarder. tcp.Forwarder runs the callback in a
\* goroutine of its own; udp.Forwarder runs it on the dispatcher, which is
\* then kept by that flow for as long as its ProxyConn does not return
NewFlow(proto) ==
    /\ Stage2Running
    /\ pc["child"] = "running"
    /\ dispatcher = "free"
    /\ others' = others \cup {proto}
    /\ \E ok \in BOOLEAN :
          dispatcher' = IF proto = "udp" /\ ok THEN "other" ELSE "free"
    /\ UNCHANGED <<req, fpc, inner, iconn, dialed, outer, sent, fin, rcvq, buf, dlv,
                   cpc, cerr, closeWrites, shut, reset, crashed, logged, tunq,
                   cancelled, echo>>
    /\ UNCHANGED <<supVars, wgAddress>>

\* a dialed flow whose peers keep it open, and the arrival of other flows
ConcurrentNext ==
    \/ DialDone
    \/ Dispatch
    \/ \E d \in Dirs : PeerWrite(d)
    \/ \E d \in Dirs : CopyRead(d)
    \/ \E d \in Dirs : CopyWrite(d)
    \/ \E proto \in {"tcp", "udp"} : NewFlow(proto)

ConcurrentSpec == CopyInit /\ [][ConcurrentNext]_vars

\* SIGINT from the terminal reaches every process of the foreground group.
\* No stage installs a handler (there is no signal.Notify in the program and
\* main() runs on context.Background()), so each running process is ended by
\* the signal where it stands: nothing is closed, no deferred call is made
Sigint ==
    /\ Stage2Running
    /\ pc' = [p \in Procs |-> IF ws[p] = Running THEN "exited" ELSE pc[p]]
    /\ ws' = [p \in Procs |-> IF ws[p] = Running THEN Signaled ELSE ws[p]]
    /\ held' = IF ws["p2"] = Running THEN {} ELSE held
    /\ UNCHANGED <<hostUid, hostGid, lookup, target, err, argv, diag, resolved, uidMap,
                   gidMap, cred, curThread, locked, threadNs, procNs, unshareThread,
                   forkThread, mounted, setup, wgConf, etc, sys3, srv>>
    /\ UNCHANGED proxyVars

\* a dialed flow whose remote peer keeps its connection open, while the
\* target command ends or the terminal interrupts the run
TeardownNext ==
    \/ DialDone
    \/ Dispatch
    \/ \E d \in Dirs : PeerWrite(d)
    \/ \E d \in Dirs : CopyRead(d)
    \/ \E d \in Dirs : CopyWrite(d)
    \/ PeerCloseWrite("up")
    \/ CopyCloseWrite("up")
    \/ Sigint
    \/ ChildExit
    \/ S3Wait
    \/ S2Wait
    \/ S1Wait
    \/ MainReturn

TeardownSpec == CopyInit /\ [][TeardownNext]_vars

\* a process whose wait has returned, or whose run() has returned, goes on;
\* nothing is assumed of the flows: a peer may stay silent for ever
TeardownFair ==
    /\ CopyInit /\ [][TeardownNext]_vars
    /\ WF_vars(S3Wait) /\ WF_vars(S2Wait) /\ WF_vars(S1Wait) /\ WF_vars(MainReturn)

(***************************************************************************)
(* Properties of the order of stage 2's set-up.                            *)
(***************************************************************************)
\* stage 2 has completed the step
Done(step) == \E i \in 1..Len(setup) : setup[i] = step

DatapathSteps ==
    {"netns", "tun", "linkup", "addr", "route4", "loup", "tcpForwarder", "udpForwarder",
     "handlers", "nic", "promiscuous", "spoofing", "routes"}

\* C26: stage 3 is launched, and the child runs, only after the TUN link is
\* up, the subnet address is assigned, the IPv4 default route is added, lo is
\* up, the TCP and UDP forwarders are registered with the TUN-side stack,
\* its NIC is created with promiscuous and spoofing modes on and its routes
\* are set; the launch is the last step.
C26_Stage3AfterDatapath ==
    /\ (pc["p3"] # "none" \/ pc["child"] # "none" \/ Done("stage3")) =>
           /\ \A st \in DatapathSteps : Done(st)
           /\ setup[Len(setup)] = "stage3"
    /\ \A i \in 1..Len(setup) :
           setup[i] = "stage3" => \A st \in DatapathSteps : \E j \in 1..(i - 1) : setup[j] = st

\* the child runs although the IPv6 default route could not be added
C26_Witness ==
    /\ pc["child"] = "running"
    /\ Done("stage3") /\ ~Done("route6") /\ ~Done("overlay")

\* a step between the WireGuard device's start and the IPv4 default route
\* has failed: unshare, water.New, LinkByName, LinkSetUp, ParseIPNet,
\* AddrAdd or the IPv4 RouteAdd
NetFailed == err["p2"] # NilErr /\ Done("wg") /\ ~Done("route4")

C32_Route6IgnoredRoute4Fatal ==
    /\ (err["p2"] # NilErr /\ Done("route4") /\ ~Done("lo")) =>
           Done("route6") \/ Done("route6 ignored")
    /\ (Done("route6 ignored") /\ err["p2"] = NilErr /\ pc["p2"] # "exited") =>
           \/ pc["p2"] \in {"overlay", "stack", "start3", "wait"}
           \/ pc["p2"] = "ret" /\ pc["child"] = "exited"
    /\ (Done("addr") /\ ~Done("route4") /\ pc["p2"] # "netsetup") =>
           /\ err["p2"] # NilErr
           /\ pc["p2"] \in {"ret", "exited"}
           /\ ~Done("route6") /\ ~Done("route6 ignored")
           /\ pc["p3"] = "none" /\ ~Done("stage3")

\* the target runs although the IPv6 default route could not be added
C32_Witness ==
    /\ Done("route4") /\ Done("route6 ignored") /\ ~Done("route6")
    /\ Done("stage3") /\ pc["child"] = "running"

\* the overlay was asked for and could be made: no --no-overlay, and /etc
\* is a directory
OverlayRequested == ~ParseArgs(argv["p1"]).NoOverlay /\ etc = "dir"

\* stage 2 is past the overlay step
PastOverlay == Done("loup") /\ pc["p2"] # "overlay"

\* C31: past the overlay step, if the overlay was requested then either it
\* is mounted (or was, until stage 2 returned) or stage 2 has failed there,
\* has built nothing further and never launches stage 3, ending with
\* status 1; if --no-overlay was given or /etc is no directory, nothing is
\* mounted and the step leaves no error: stage 2 goes on to build the stack.
C31_OverlayFatalOrSkipped ==
    PastOverlay =>
        IF OverlayRequested
        THEN \/ Done("overlay")
             \/ /\ err["p2"] # NilErr /\ ~mounted
                /\ pc["p2"] \in {"ret", "exited"}
                /\ ~Done("stack") /\ ~Done("stage3")
                /\ pc["p3"] = "none" /\ pc["child"] = "none"
                /\ pc["p2"] = "exited" => ws["p2"] = Exited(1)
        ELSE /\ ~mounted /\ ~Done("overlay")
             /\ (pc["p2"] = "stack" \/ Done("stack"))
             /\ pc["p2"] = "stack" => err["p2"] = NilErr

\* the mount failed and both stages have ended
C31_Witness ==
    /\ PastOverlay /\ OverlayRequested /\ ~Done("overlay")
    /\ pc["p2"] = "exited" /\ pc["p1"] = "exited"

(***************************************************************************)
(* Properties of stage 1.                                                  *)
(***************************************************************************)
\* the invocation names a user that user.Lookup does not find
LookupFails == ParseArgs(argv["p1"]).User # EmptyStr /\ ~lookup.ok

\* a user namespace has been made, or a process started to live in one
NamespaceMade ==
    \/ \E n \in {"ns2", "ns3"} : uidMap[n] # <<>> \/ gidMap[n] # <<>>
    \/ \E p \in Procs \ {"p1"} : pc[p] # "none"
    \/ \E t \in Threads : threadNs[t] # "host"

\* C34: when any namespace exists the target ids have been resolved, to the
\* invoker's ids or to those of the --user lookup, and stage 2 was told
\* them; when the lookup fails no namespace is ever made, stage 2 is never
\* started, and stage 1 ends with status 1 after printing a diagnostic.
C34_IdsResolvedBeforeNamespaces ==
    /\ NamespaceMade =>
           /\ resolved = TargetIds
           /\ resolved.uid # NoId /\ resolved.gid # NoId
           /\ ParseArgs(argv["p2"]).UID = resolved.uid
           /\ ParseArgs(argv["p2"]).GID = resolved.gid
    /\ LookupFails =>
           /\ ~NamespaceMade
           /\ ws["p2"] = NotStarted
           /\ pc["p1"] \in {"start", "ret", "exited"}
           /\ pc["p1"] # "start" => err["p1"] # NilErr
           /\ pc["p1"] = "exited" => ws["p1"] = Exited(1) /\ diag["p1"] = LogOutput

\* the lookup failed and stage 1 has ended
C34_Witness == LookupFails /\ pc["p1"] = "exited" /\ ws["p1"] = Exited(1)

\* the process a stage spawns
ChildOf(p) == CASE p = "p1" -> "p2" [] p = "p2" -> "p3" [] p = "p3" -> "child"

\* C35: the chain is stage 1, stage 2, stage 3, target: a process exists
\* only if its parent does, the child of a stage runs the next stage,
\* stages 2 and 3 have spawned at most once, and a stage that has ended has
\* no child still running.
C35_ChainInOrder ==
    /\ \A p \in Stages : pc[ChildOf(p)] # "none" => pc[p] # "none"
    /\ pc["p1"] # "none" => StageOf(argv["p1"]) = 1
    /\ pc["p2"] # "none" => StageOf(argv["p2"]) = 2
    /\ pc["p3"] # "none" => StageOf(argv["p3"]) = 3
    /\ \A i, j \in 1..Len(setup) : (setup[i] = "stage3" /\ setup[j] = "stage3") => i = j
    /\ \A i, j \in 1..Len(sys3) : (sys3[i] = "exec" /\ sys3[j] = "exec") => i = j
    /\ \A p \in Stages : pc[p] = "exited" => pc[ChildOf(p)] \in {"none", "exited"}

\* the command the invocation gives
UserCommand ==
    CHOOSE c \in Commands : \E dashed \in BOOLEAN : argv["p1"] = CommandLine(c, dashed)

\* C36: the target is executed with the command of the invocation, element
\* for element, or with /bin/sh when there is none; every stage parses its
\* arguments successfully, reads the same command from them, and reads no
\* option out of the command's words: no --user, no --no-overlay, and the
\* ids of stages 2 and 3 are those stage 1 resolved.
C36_CommandPassedVerbatim ==
    LET cmd == IF UserCommand = <<>> THEN DefaultCommand ELSE UserCommand IN
    /\ pc["child"] # "none" => argv["child"] = cmd
    /\ \A p \in Stages : pc[p] # "none" =>
           /\ ParseArgs(argv[p]).ok
           /\ ParseArgs(argv[p]).Command = cmd
           /\ ParseArgs(argv[p]).User = EmptyStr
           /\ ~ParseArgs(argv[p]).NoOverlay
    /\ \A p \in {"p2", "p3"} : pc[p] # "none" =>
           /\ ParseArgs(argv[p]).UID = resolved.uid
           /\ ParseArgs(argv[p]).GID = resolved.gid

\* the target runs a command whose words look like an option with a value
C36_Witness ==
    /\ pc["child"] = "running"
    /\ UserCommand = << <<"cmd">>, Opt("gid"), Itoa(1) >>
    /\ argv["child"] = UserCommand

(***************************************************************************)
(* Properties of stage 3.                                                  *)
(***************************************************************************)
\* stage 3 has made the call, at position i of its calls
Called(call, i) == i \in 1..Len(sys3) /\ sys3[i] = call

\* C33: stage 3 switches the group before the user: a setuid call, failed
\* or not, comes after the setgid call has succeeded whenever a group is to
\* be switched to; the command is executed only after the switches asked
\* for have succeeded, and once a switch has failed nothing else is
\* called: the target is never executed and stage 3 returns the error.
C33_GroupBeforeUser ==
    LET a == ParseArgs(argv["p3"]) IN
    /\ \A i \in 1..Len(sys3) :
           /\ (sys3[i] \in {"setuid", "setuid failed"} /\ a.GID # 0) =>
                  \E j \in 1..(i - 1) : sys3[j] = "setgid"
           /\ sys3[i] \in {"exec", "exec failed"} =>
                  /\ a.GID # 0 => \E j \in 1..(i - 1) : sys3[j] = "setgid"
                  /\ a.UID # 0 => \E j \in 1..(i - 1) : sys3[j] = "setuid"
           /\ sys3[i] \in {"setgid failed", "setuid failed"} =>
                  /\ i = Len(sys3)
                  /\ pc["child"] = "none" /\ ws["child"] = NotStarted
                  /\ pc["p3"] \in {"ret", "exited"}
                  /\ err["p3"] # NilErr

\* setuid was refused after the group had been switched, and stage 3 has
\* ended without the target
C33_Witness ==
    /\ Called("setgid", 1) /\ Called("setuid failed", 2)
    /\ pc["p3"] = "exited" /\ pc["child"] = "none"

(***************************************************************************)
(* Properties of the WireGuard configuration.                              *)
(***************************************************************************)
\* the text the invocation gives as --wg-address (empty if it gives none)
WgAddressText == ParseArgs(argv["p1"]).WgIP

\* a key text that is base64 of exactly the bytes of a key
WellFormedKey(k) == k.b64 /\ Len(k.bytes) = NoiseKeyLen

\* the device has been configured with keys
Configured == wgConf.dev # NoDevice

\* C28: a private or public key that is not base64 of exactly 32 bytes is
\* a fatal error before the device is configured: the device is configured
\* only with the bytes of well-formed keys, never with a padded or cut key,
\* and with a malformed key (the address being well-formed) stage 2 ends
\* with status 1 and a diagnostic.
C28_BadKeyRejected ==
    ParseAddr(WgAddressText).ok =>
    /\ Configured =>
           /\ WellFormedKey(wgConf.priv) /\ wgConf.dev.private_key = wgConf.priv.bytes
           /\ WellFormedKey(wgConf.pub) /\ wgConf.dev.public_key = wgConf.pub.bytes
    /\ (~WellFormedKey(wgConf.priv) \/ ~WellFormedKey(wgConf.pub)) =>
           /\ ~Done("wg")
           /\ pc["p2"] = "exited" => ws["p2"] = Exited(1) /\ diag["p2"] = LogOutput

\* C29: a --wg-address that is missing or is no address is reported as a
\* fatal configuration error, not a panic: stage 2 ends with status 1 and
\* a diagnostic of the logger, before any device or namespace is made.
C29_BadAddressIsFatalError ==
    ~ParseAddr(WgAddressText).ok =>
        /\ ~Done("wg") /\ ~Done("netns")
        /\ pc["p2"] = "exited" => ws["p2"] = Exited(1) /\ diag["p2"] = LogOutput

(***************************************************************************)
(* Properties of a flow.                                                   *)
(***************************************************************************)
Aborted == reset["inner"] \/ reset["outer"]
Ended(d) == cpc[d] \in {"closewrite", "done"}

\* C6: for a proxied TCP flow and each direction, the bytes written to the
\* destination connection are always the first bytes the source peer wrote,
\* in order and without repetition; while neither connection is aborted no
\* byte is lost between the source and the destination; and when the copy
\* ends at EOF the destination has been given exactly what was written.
C6_BytesDeliveredInOrder ==
    (req.proto = "tcp" /\ outer.up) =>
        \A d \in Dirs :
            /\ IsPrefix(dlv[d], Written(d))
            /\ ~Aborted => dlv[d] \o buf[d] \o rcvq[d] \o InFlight(d) = Written(d)
            /\ (Ended(d) /\ cerr[d] = "none") => fin[d] /\ dlv[d] = Written(d)

\* both peers wrote MaxBytes bytes and both copies ended at EOF
C6_Witness ==
    /\ req.proto = "tcp"
    /\ \A d \in Dirs : /\ sent[d] = MaxBytes
                       /\ Len(dlv[d]) = MaxBytes
                       /\ cpc[d] = "done"
                       /\ cerr[d] = "none"

\* C7: in a dialed flow the write side of a direction's destination is
\* closed at most once, by that direction's copy after it ended and with
\* nothing read left unwritten; after an EOF every byte of the direction
\* has been delivered before the half-close; the half-close leaves the read
\* sides open, so the opposite direction ends only at its own EOF (or when a
\* peer aborts a connection).
C7_HalfCloseOnceAfterFlush ==
    outer.up =>
        \A d \in Dirs :
            /\ closeWrites[d] <= 1
            /\ shut[Dst(d)].wr <=> closeWrites[d] = 1
            /\ closeWrites[d] = 1 => cpc[d] = "done" /\ buf[d] = <<>>
            /\ (closeWrites[d] = 1 /\ cerr[d] = "none") =>
                   fin[d] /\ rcvq[d] = <<>> /\ dlv[d] = Written(d)
            /\ ~shut[Src(d)].rd
            /\ Ended(d) => (cerr[d] = "none" /\ fin[d]) \/ Aborted

\* the outer connection is half-closed after the child's EOF while the other
\* direction is in the middle of a copy
C7_Witness ==
    /\ req.proto = "tcp"
    /\ closeWrites["up"] = 1
    /\ cerr["up"] = "none"
    /\ dlv["up"] = Written("up")
    /\ sent["up"] >= 1
    /\ cpc["down"] = "write"
    /\ buf["down"] # <<>>
    /\ dlv["down"] # <<>>

\* C8: every TCP or UDP flow handed to ProxyConn is dialed on the WG-side
\* stack at the flow's original destination (address and port) with the
\* flow's protocol, and a connection that results has that remote address.
C8_DialsOriginalDestination ==
    /\ (iconn.up /\ fpc \in {"dial", "copy"}) => dialed # NoDial
    /\ dialed # NoDial => dialed.raddr = req.dst /\ dialed.network = req.proto
    /\ outer.up => outer.remote = req.dst /\ outer.proto = req.proto

\* an IPv6 UDP flow whose destination differs from its source in address
\* and port has been dialed
C8_Witness ==
    /\ outer.up
    /\ req.proto = "udp"
    /\ req.dst = [v6 |-> TRUE, ip |-> 2, port |-> 2]
    /\ req.src = [v6 |-> TRUE, ip |-> 1, port |-> 1]

\* C9: ProxyConn gives the dial no local address, and the local address of
\* every connection dialed on the WG-side stack is the --wg-address of the
\* invocation, whatever the flow's inner source is.
C9_OuterSourceIsWgAddress ==
    /\ wgAddress = ParseAddr(ParseArgs(argv["p2"]).WgIP).addr
    /\ dialed # NoDial => dialed.laddr = NoAddrPort
    /\ outer.up => AddrOf(outer.local) = wgAddress

\* a TCP flow from an inner source other than --wg-address has been dialed
C9_Witness ==
    /\ outer.up
    /\ req.proto = "tcp"
    /\ wgAddress = [v6 |-> FALSE, ip |-> 1]
    /\ AddrOf(req.src) = [v6 |-> FALSE, ip |-> 2]

\* C10: the child never sees its TCP connection established before the
\* WG-side dial has succeeded, and after a failed dial it sees the
\* connection attempt refused or timed out.
C10_RefusedOnDialFailure ==
    req.proto = "tcp" =>
        /\ inner = "established" => outer.up
        /\ (dialed # NoDial /\ fpc = "returned" /\ ~outer.up) =>
               inner \in {"refused", "timed_out"}

\* the dial ProxyConn made for the flow returned an error
DialFailed == dialed # NoDial /\ fpc = "returned" /\ ~outer.up

\* C11: after a failed dial the inner connection is closed in both
\* directions, no copy goroutine was started and nothing was delivered,
\* nothing above debug level was logged, a queued datagram is gone, and
\* stage 2 neither crashed nor returned: it still waits for stage 3 and
\* takes the first packet of another flow.
C11_DialFailureClosesInner ==
    DialFailed =>
        /\ shut["inner"].rd /\ shut["inner"].wr
        /\ \A d \in Dirs : cpc[d] = "idle" /\ dlv[d] = <<>> /\ buf[d] = <<>>
        /\ rcvq["up"] = <<>>
        /\ logged = "debug"
        /\ ~crashed
        /\ pc["p2"] = "wait" /\ err["p2"] = NilErr
        /\ dispatcher = "free"
        /\ ENABLED HandlePacket

\* the dial of a UDP flow failed with the flow's first datagram queued
C11_Witness ==
    /\ DialFailed
    /\ req.proto = "udp"
    /\ sent["up"] = 1
    /\ rcvq["up"] = <<>>

\* C12: once a UDP flow is dialed, a later datagram of the flow never waits
\* in the TUN behind the first: every datagram the child sends after the first
\* can be routed into the flow's endpoint.
C12_LaterDatagramsRouted ==
    (req.proto = "udp" /\ outer.up /\ tunq # <<>>) => ENABLED Dispatch

\* C17: the echo requests of `ping -c 3` are carried into the tunnel to the
\* remote and each is answered: after three requests three were carried and
\* three replies were received.
C17_EchoCarriedAndAnswered ==
    echo.requests = MaxPings =>
        echo.carried = MaxPings /\ echo.replies = MaxPings

\* C37: an ICMP or ICMPv6 packet of the child is logged and dropped: the
\* handler reports it handled, nothing of it is handed to the proxy, and no
\* reply or error message goes back to the child.
C37_IcmpLoggedAndDropped ==
    echo.requests > 0 =>
        /\ logged # "none"
        /\ IcmpHandlerReturn
        /\ echo.carried = 0
        /\ echo.replies = 0

\* C18: once the context of a dialed flow is cancelled, neither copy
\* direction is reading or writing any more and both the inner and the
\* outer connection are closed, for reading and for writing.
C18_CancelAbortsCopies ==
    (cancelled /\ outer.up) =>
        /\ \A d \in Dirs : cpc[d] \notin {"read", "write"}
        /\ \A c \in Conns : shut[c].rd /\ shut[c].wr

\* C21: whatever ends a copy direction of a UDP flow, stage 2 does not
\* crash: it is still running after the step that follows the copy.
C21_UdpCopyEndNeverCrashes ==
    req.proto = "udp" => ~crashed /\ ws["p2"] = Running

\* C22: while a UDP flow is open (its proxy has not returned) the first
\* packet of a new TCP flow and of a new UDP flow can still be handed to its
\* forwarder.
C22_UdpFlowDoesNotBlockDelivery ==
    (req.proto = "udp" /\ fpc = "copy" /\ others = {}) =>
        \A proto \in {"tcp", "udp"} : ENABLED NewFlow(proto)

\* C23: when both copy directions of a dialed flow have ended and its proxy
\* has returned, the inner and the outer connection are closed for reading
\* and for writing.
C23_FlowDestroyedAfterBothEnd ==
    (outer.up /\ fpc = "returned") =>
        \A c \in Conns : shut[c].rd /\ shut[c].wr

\* C24: the proxy of a dialed flow has returned only if both copy
\* directions are done, and while one direction has ended and the other has
\* not, the other is still running.
C24_ReturnsAfterBothCopies ==
    outer.up =>
        /\ fpc = "returned" => \A d \in Dirs : cpc[d] = "done"
        /\ \A d, e \in Dirs : (Ended(d) /\ ~Ended(e)) => Stage2Running

\* C27: a forwarder callback that has returned leaves no endpoint that is
\* open and owned by nobody: the endpoint was never created, or it was
\* handed to ProxyConn, or it is closed.
C27_EndpointHandedOrClosed ==
    (fpc = "returned" /\ iconn.up) =>
        \/ dialed # NoDial
        \/ shut["inner"].rd /\ shut["inner"].wr

(***************************************************************************)
(* Stage selection, for any name the program may be started under.         *)
(***************************************************************************)
\* names a caller of execve may put in argv[0]: the program's own, the two
\* sentinels, other strings that begin like a sentinel, and the empty one
Argv0s ==
    {ProgName, <<"/usr/bin/", "wirecage">>, EmptyStr, <<"stage2">>,
     <<"x", "httptap.stage.", "2">>,
     Stage2Sentinel, Stage3Sentinel,
     <<"httptap.stage.">>, <<"httptap.stage.", "1">>, <<"httptap.stage.", "4">>,
     <<"httptap.stage.", "2", "x">>, <<"httptap.stage.", "3", "3">>}

StageInit == (\E argv0 \in Argv0s : InvokedAs(argv0)) /\ wgAddress = NoAddr /\ FlowIdle

\* run() reaches the branch of its stage: lines 87, 156 and 194
SelectStage ==
    /\ pc["p1"] = "start"
    /\ pc' = [pc EXCEPT !["p1"] =
                 CASE StageOf(argv["p1"]) = 1 -> "stage1"
                   [] StageOf(argv["p1"]) = 2 -> "stage2"
                   [] StageOf(argv["p1"]) = 3 -> "stage3"]
    /\ UNCHANGED <<hostUid, hostGid, lookup, target, err, argv, ws, diag, resolved,
                   uidMap, gidMap, cred, curThread, locked, threadNs, procNs,
                   unshareThread, forkThread, mounted, setup, wgConf, held, etc, sys3, srv>>
    /\ UNCHANGED proxyVars

StageNext == SelectStage

StageSpec == StageInit /\ [][StageNext]_vars

\* C20: the stage a process runs is decided by argv[0] alone: the stage-2
\* sentinel selects stage 2, the stage-3 sentinel selects stage 3, and every
\* other value selects stage 1.
C20_OtherValuesSelectStage1 ==
    pc["p1"] \in {"stage1", "stage2", "stage3"} =>
        pc["p1"] = (IF argv["p1"][1] = Stage2Sentinel THEN "stage2"
                    ELSE IF argv["p1"][1] = Stage3Sentinel THEN "stage3"
                    ELSE "stage1")

(***************************************************************************)
(* Properties of the end of a run.                                         *)
(***************************************************************************)
\* C15: the overlay that was mounted before stage 3 was launched stays
\* mounted for as long as stage 3 runs, and once stage 2 has ended, by
\* whatever path (a normal return, a failed child, a later error, an
\* abnormal termination), the overlay has been removed.
C15_OverlayRemovedOnEveryExit ==
    /\ ws["p3"] = Running => mounted
    /\ pc["p2"] = "exited" => ~mounted

\* every stage of the supervisor has ended
ChainEnded == \A p \in Stages : pc[p] = "exited"

\* the flow is open and a copy of it waits for bytes that do not come
FlowBlocked ==
    /\ fpc = "copy" /\ outer.up
    /\ \E d \in Dirs : cpc[d] = "read" /\ rcvq[d] = <<>> /\ ~fin[d]

\* C16: once the target command has exited, every stage of the supervisor
\* ends, whatever the flows do: no stage waits for a flow to finish.
C16_ChainEndsOnceTargetExited == (pc["child"] = "exited") ~> ChainEnded

C16_Witness ==
    /\ ChainEnded /\ ws["child"] = target
    /\ \A p \in Stages : ws[p] = Exited(0)
    /\ FlowBlocked

\* C19: when SIGINT has ended the run, every connection of the flows was
\* closed by stage 2 before it went, the thread it had pinned was released,
\* and the supervisor's status is that of a process ended by SIGINT.
C19_InterruptUnwindsFlows ==
    ws["p2"] = Signaled =>
        /\ iconn.up => shut["inner"].rd /\ shut["inner"].wr
        /\ outer.up => shut["outer"].rd /\ shut["outer"].wr
        /\ ~locked
        /\ ws["p1"] = Signaled

(***************************************************************************)
(* Properties of the server program.                                        *)
(***************************************************************************)
\* the listen port had no owner when the server was started
ListenPortFree ==
    \A i \in 1..Len(srv.tries) :
        srv.tries[i].who = "device" => srv.tries[i].owners = {}

\* C39: starting the server with a free listen port succeeds: Server.Start
\* never binds a second UDP socket to the port the WireGuard device has
\* bound, so no port has two owners and no start fails at the listener.
C39_ListenPortBoundOnce ==
    /\ \A p \in Ports : Cardinality(Owners(srv.bound, p)) <= 1
    /\ \A i \in 1..Len(srv.tries) :
          srv.tries[i].who = "listener" => "device" \notin srv.tries[i].owners
    /\ (srv.ListenPort # 0 /\ ListenPortFree /\ srv.pc = "fatal") =>
          srv.err \notin {"up", "listen"}

=============================================================================
